---- MODULE Spec2Model ----
(***************************************************************************)
(* A model of versiref: the reference data model (VerseRange,              *)
(* SimpleBibleRef), the style-driven formatter SimpleBibleRef.format, the  *)
(* validity predicates and the pyparsing grammar built by RefParser.       *)
(*                                                                         *)
(* Text is modelled character by character: a Python str is a sequence of  *)
(* one-character strings.  The en dash U+2013 is the character "ndash".    *)
(***************************************************************************)
EXTENDS Integers, Sequences, FiniteSets, TLC

VARIABLES
    pc,         \* what the caller has done last
    text,       \* the text handed to parse_simple, if any
    book_id,    \* the book id of the caller's SimpleBibleRef
    ranges,     \* its ranges
    formatted,  \* the outcome of format, with the arguments it was given
    reparsed,   \* the outcome of parse_simple on the formatted text
    valid,      \* the answer of the last is_valid call
    written,    \* how the text was written, if a text was handed in
    original_text,  \* the original_text of the reference and of its ranges
    yielded,    \* what scan_string or ranges_iter has yielded
    source,     \* the configuration data a caller holds
    object,     \* the Style or Versification made from it, or the failure
    answer      \* the answer of the last query of a Versification

\* the variables of the callers that configure a Style or a Versification
config == <<source, object, answer>>

vars == <<pc, text, book_id, ranges, formatted, reparsed, valid, written,
          original_text, yielded, config>>

(***************************************************************************)
(* Bounds of the model.                                                    *)
(***************************************************************************)
MaxChapter == 2
MaxVerse == 2
MaxRanges == 2
MaxEntries == 2
MaxNames == 3

(***************************************************************************)
(* Python str helpers.                                                     *)
(***************************************************************************)
DigitChar == <<"0", "1", "2", "3", "4", "5", "6", "7", "8", "9">>

Digits == {DigitChar[i] : i \in 1..10}

DigitValue(c) == CHOOSE d \in 0..9 : DigitChar[d + 1] = c

Lower == {"a", "b", "c", "d", "e", "f", "g", "h", "i", "j", "k", "l", "m",
          "n", "o", "p", "q", "r", "s", "t", "u", "v", "w", "x", "y", "z"}

Whitespace == {" "}

RECURSIVE NatStr(_)
NatStr(n) == IF n < 10 THEN <<DigitChar[n + 1]>>
             ELSE NatStr(n \div 10) \o <<DigitChar[(n % 10) + 1]>>

\* str(n) of a Python int
Str(n) == IF n < 0 THEN <<"-">> \o NatStr(0 - n) ELSE NatStr(n)

RECURSIVE Join(_, _)
\* sep.join(parts)
Join(sep, parts) ==
    IF Len(parts) = 0 THEN <<>>
    ELSE IF Len(parts) = 1 THEN parts[1]
    ELSE parts[1] \o sep \o Join(sep, Tail(parts))

\* s.startswith(p, at) with 1-based position at
StartsWithAt(s, p, at) ==
    /\ at + Len(p) - 1 <= Len(s)
    /\ \A k \in 1..Len(p) : s[at + k - 1] = p[k]

\* p in s
Contains(s, p) == \E at \in 1..(Len(s) + 1) : StartsWithAt(s, p, at)

RECURSIVE Strip(_)
\* s.strip()
Strip(s) ==
    IF Len(s) = 0 THEN s
    ELSE IF s[1] \in Whitespace THEN Strip(Tail(s))
    ELSE IF s[Len(s)] \in Whitespace THEN Strip(SubSeq(s, 1, Len(s) - 1))
    ELSE s

(***************************************************************************)
(* Versification.  max_verses maps a book id to the last verse numbers of  *)
(* its chapters, chapter 1 first.  The data gives them per book either as  *)
(* a mapping keyed by str(chapter), shape "keyed", or as an ordered        *)
(* sequence of numbers, shape "list".                                      *)
(***************************************************************************)
Books == {"GEN", "JUD"}

UnknownBook == "XYZ"

\* a table in the shape of the packaged data: Genesis has two chapters,
\* Jude has one
eng == [given |-> TRUE, shape |-> "keyed",
        max_verses |-> [b \in Books |-> IF b = "GEN" THEN <<2, 1>> ELSE <<2>>]]

\* Versification() built without data
empty_versification ==
    [given |-> TRUE, shape |-> "keyed", max_verses |-> <<>>]

\* the argument versification=None of format
None == [given |-> FALSE, shape |-> "keyed", max_verses |-> <<>>]

VersificationOf(id) ==
    IF id = "eng" THEN eng
    ELSE IF id = "empty" THEN empty_versification
    ELSE None

\* Versification(data), Versification(file_path) and
\* Versification(abbreviation): __init__ with _load_from_data,
\* _load_from_file and load_standard_versification.  The object holds
\* data["maxVerses"] itself; it keeps the empty table when the data has no
\* maxVerses or when the file could not be read, which prints a warning
Versification(src) ==
    [given |-> TRUE, shape |-> src.shape,
     max_verses |-> IF src.readable /\ src.has_max_verses THEN src.table
                    ELSE <<>>]

\* str(chapter) is looked up in max_verses[book]: among the keys of a
\* mapping, among the numbers of a list, where no str is found
last_verse(v, book, chapter) ==
    IF DOMAIN v.max_verses = {} THEN 99
    ELSE IF book \notin DOMAIN v.max_verses THEN -1
    ELSE IF v.shape = "list" THEN -1
    ELSE IF chapter \notin DOMAIN v.max_verses[book] THEN -1
    ELSE v.max_verses[book][chapter]

includes(v, book) == book \in DOMAIN v.max_verses

is_single_chapter(v, book) ==
    /\ book \in DOMAIN v.max_verses
    /\ Len(v.max_verses[book]) = 1

(***************************************************************************)
(* Styles.  A dict of the configuration data is the sequence of its        *)
(* <<key, value>> items in insertion order, the keys all different; the    *)
(* mapping of a dict is the function from its keys to their values.        *)
(***************************************************************************)
mapping(d) ==
    [k \in {d[i][1] : i \in 1..Len(d)} |->
        d[CHOOSE i \in 1..Len(d) : d[i][1] = k][2]]

\* inverted[v] = k
set_item(inverted, v, k) ==
    [n \in DOMAIN inverted \cup {v} |-> IF n = v THEN k ELSE inverted[n]]

RECURSIVE _invert_items(_, _, _)
\* the loop of _invert at item i of d: the name of the item is new, or it
\* is held by PSA or PSAS and then goes to PSA, or by EST or ESG and then
\* goes to EST, or the ValueError that names the holder and the id of the
\* item is raised
_invert_items(d, i, inverted) ==
    IF i > Len(d) THEN [raised |-> <<>>, value |-> inverted]
    ELSE IF d[i][2] \notin DOMAIN inverted
    THEN _invert_items(d, i + 1, set_item(inverted, d[i][2], d[i][1]))
    ELSE IF inverted[d[i][2]] \in {"PSA", "PSAS"}
    THEN _invert_items(d, i + 1, set_item(inverted, d[i][2], "PSA"))
    ELSE IF inverted[d[i][2]] \in {"EST", "ESG"}
    THEN _invert_items(d, i + 1, set_item(inverted, d[i][2], "EST"))
    ELSE [raised |-> <<"ValueError", inverted[d[i][2]], d[i][1]>>,
          value |-> <<>>]

_invert(d) == _invert_items(d, 1, <<>>)

\* RefStyle(names, ...) with recognized_names left out: names is the
\* caller's dict itself, recognized_names is built by __post_init__
RefStyle(names, cvs, rs, fv, fvs, vrs, cs) ==
    [names |-> mapping(names),
     chapter_verse_separator |-> cvs,
     range_separator |-> rs,
     following_verse |-> fv,
     following_verses |-> fvs,
     verse_range_separator |-> vrs,
     chapter_separator |-> cs,
     recognized_names |-> _invert(names).value]

\* RefStyle(names=...) with every separator left at its default
sbl_style ==
    RefStyle(<<<<"GEN", <<"G", "e", "n">>>>,
               <<"JUD", <<"J", "u", "d", "e">>>>>>,
             <<":">>, <<"ndash">>, <<"f">>, <<"f", "f">>,
             <<",", " ">>, <<";", " ">>)

\* the Italian style of tests/test_parse_and_format.py
cei_style ==
    RefStyle(<<<<"GEN", <<"G", "e", "n">>>>, <<"JUD", <<"G", "d">>>>>>,
             <<",">>, <<"-">>, <<"s">>, <<"s", "s">>,
             <<".">>, <<";", " ">>)

\* also_recognize where a name recognized already takes the incoming id
also_recognize_overwriting(st, names) ==
    [st EXCEPT !.recognized_names =
        [n \in DOMAIN st.recognized_names \cup DOMAIN names |->
            IF n \in DOMAIN names THEN names[n]
            ELSE st.recognized_names[n]]]

\* style.also_recognize(names) for a dict from names to ids: the names not
\* recognized yet are added to recognized_names
also_recognize(st, names) ==
    [st EXCEPT !.recognized_names =
        [n \in DOMAIN st.recognized_names \cup DOMAIN names |->
            IF n \in DOMAIN st.recognized_names
            THEN st.recognized_names[n] ELSE names[n]]]

\* standard_names(identifier): the table of the file, or the
\* FileNotFoundError of reading a file that is not there
standard_names(src) ==
    IF src.readable
    THEN [kind |-> "names", shares |-> FALSE,
          value |-> <<<<"GEN", <<"G", "e", "n">>>>,
                      <<"JUD", <<"J", "u", "d", "e">>>>>>]
    ELSE [kind |-> "raised", shares |-> FALSE,
          value |-> <<"FileNotFoundError">>]

\* RefStyle.named(identifier): the style of the file, or FileNotFoundError
named(src) ==
    IF src.readable
    THEN [kind |-> "RefStyle", shares |-> FALSE, value |-> sbl_style]
    ELSE [kind |-> "raised", shares |-> FALSE,
          value |-> <<"FileNotFoundError">>]

\* the dict that also_recognize merges for the argument inc: the dict
\* itself, or _invert(standard_names(inc)); nothing when standard_names
\* raises
incoming_names(inc) ==
    IF inc.kind = "dict" THEN inc.names
    ELSE IF standard_names(inc).kind = "raised" THEN <<>>
    ELSE _invert(standard_names(inc).value).value

RECURSIVE from_dict_also_recognize(_, _, _)
\* the loop of from_dict over the entries of also_recognize, at entry i: a
\* str or a dict is merged, an entry of another type is passed over
from_dict_also_recognize(st, entries, i) ==
    IF i > Len(entries)
    THEN [kind |-> "RefStyle", shares |-> FALSE, value |-> st]
    ELSE IF entries[i].kind = "other"
    THEN from_dict_also_recognize(st, entries, i + 1)
    ELSE IF entries[i].kind = "str" /\ ~entries[i].readable
    THEN standard_names(entries[i])
    ELSE from_dict_also_recognize(
             also_recognize(st, incoming_names(entries[i])), entries, i + 1)

\* from_dict once names is a dict: cls(names=names, ...), where _str gives
\* the default when the value of the separator is not a str, then
\* also_recognize when it is a list
from_dict_style(data, names) ==
    IF _invert(names).raised # <<>>
    THEN [kind |-> "raised", shares |-> FALSE,
          value |-> _invert(names).raised]
    ELSE from_dict_also_recognize(
             RefStyle(names,
                      IF data.separator = "str" THEN <<",">> ELSE <<":">>,
                      <<"ndash">>, <<"f">>, <<"f", "f">>, <<",", " ">>,
                      <<";", " ">>),
             IF data.also_recognize.kind = "list"
             THEN data.also_recognize.entries ELSE <<>>,
             1)

\* RefStyle.from_dict(data)
from_dict(data) ==
    IF ~data.has_names
    THEN [kind |-> "raised", shares |-> FALSE, value |-> <<"ValueError">>]
    ELSE IF data.names_shape = "str"
    THEN (IF standard_names(data).kind = "raised" THEN standard_names(data)
          ELSE from_dict_style(data, standard_names(data).value))
    ELSE IF data.names_shape = "dict"
    THEN from_dict_style(data, data.names)
    ELSE [kind |-> "raised", shares |-> FALSE, value |-> <<"ValueError">>]

\* a style whose following_verses token has three letters
sqq_style ==
    RefStyle(<<<<"GEN", <<"G", "e", "n">>>>,
               <<"JUD", <<"J", "u", "d", "e">>>>>>,
             <<":">>, <<"ndash">>, <<"s", "q">>, <<"s", "q", "q">>,
             <<",", " ">>, <<";", " ">>)

StyleIds == {"sbl", "cei"}

StyleOf(id) ==
    IF id = "sbl" THEN sbl_style
    ELSE IF id = "cei" THEN cei_style
    ELSE sqq_style

\* the class attribute Style.verse_range_separator (the dataclass default)
Style_verse_range_separator == <<",", " ">>

(***************************************************************************)
(* VerseRange                                                              *)
(***************************************************************************)
VerseRange(sc, sv, ss, ec, ev, es) ==
    [start_chapter |-> sc, start_verse |-> sv, start_subverse |-> ss,
     end_chapter |-> ec, end_verse |-> ev, end_subverse |-> es]

is_whole_chapters(r) == r.start_verse < 0 /\ r.end_verse < 0

\* is_valid with the third test made without looking at the sign of end_verse
VerseRange_is_valid_unsigned(r) ==
    IF r.start_verse >= 0 /\ r.end_verse < 0
       /\ r.start_chapter # r.end_chapter
    THEN FALSE
    ELSE IF r.start_verse < 0 /\ r.end_verse >= 0
    THEN FALSE
    ELSE IF r.start_chapter = r.end_chapter
            /\ r.start_verse > r.end_verse
    THEN FALSE
    ELSE IF r.start_chapter > r.end_chapter
    THEN FALSE
    ELSE TRUE

VerseRange_is_valid(r) ==
    IF r.start_verse >= 0 /\ r.end_verse < 0
       /\ r.start_chapter # r.end_chapter
    THEN FALSE
    ELSE IF r.start_verse < 0 /\ r.end_verse >= 0
    THEN FALSE
    ELSE IF r.start_chapter = r.end_chapter
            /\ r.start_verse > r.end_verse
            /\ r.end_verse >= 0
    THEN FALSE
    ELSE IF r.start_chapter > r.end_chapter
    THEN FALSE
    ELSE TRUE

(***************************************************************************)
(* SimpleBibleRef                                                          *)
(***************************************************************************)
SimpleBibleRef(b, rs) == [book_id |-> b, ranges |-> rs]

\* a reference that is never taken for a whole book
is_whole_book_never(ref) == FALSE

is_whole_book(ref) == Len(ref.ranges) = 0

\* the checks made on one range inside the loop of SimpleBibleRef.is_valid
range_is_valid_in(v, book, r) ==
    IF ~VerseRange_is_valid(r)
    THEN FALSE
    ELSE IF last_verse(v, book, r.end_chapter) < 0
    THEN FALSE
    ELSE IF (r.start_chapter # r.end_chapter \/ r.end_verse < 0)
            /\ r.start_verse > last_verse(v, book, r.start_chapter)
    THEN FALSE
    ELSE IF r.end_verse > last_verse(v, book, r.end_chapter)
    THEN FALSE
    ELSE TRUE

SimpleBibleRef_is_valid(ref, v) ==
    IF ~includes(v, ref.book_id)
    THEN FALSE
    ELSE \A i \in 1..Len(ref.ranges) :
            range_is_valid_in(v, ref.book_id, ref.ranges[i])

(***************************************************************************)
(* SimpleBibleRef.format                                                   *)
(***************************************************************************)
\* the text appended to formatted_ranges for a range that starts a chapter
\* other than current_chapter and has a start verse
\* the start of a range written with its chapter whatever the book
range_start_text_with_chapter(r, st, single) ==
    Str(r.start_chapter) \o st.chapter_verse_separator \o Str(r.start_verse)

\* the first assignment of range_text for a range with a start verse: the
\* chapter number is omitted for a one-chapter book
range_start_text(r, st, single) ==
    IF single
    THEN Str(r.start_verse)
    ELSE Str(r.start_chapter) \o st.chapter_verse_separator
         \o Str(r.start_verse)

new_chapter_verse_text(r, st, single) ==
    LET start == range_start_text(r, st, single) \o r.start_subverse
    IN  IF r.end_verse < 0
        THEN start \o st.following_verses
        ELSE IF r.end_chapter # r.start_chapter
                \/ r.end_verse # r.start_verse
                \/ r.end_subverse # r.start_subverse
        THEN (IF r.end_chapter # r.start_chapter
              THEN IF single
                   THEN start \o st.range_separator \o Str(r.end_verse)
                   ELSE start \o st.range_separator \o Str(r.end_chapter)
                        \o st.chapter_verse_separator \o Str(r.end_verse)
              ELSE start \o st.range_separator
                   \o (IF r.start_verse # r.end_verse
                       THEN Str(r.end_verse) ELSE <<>>))
             \o r.end_subverse
        ELSE start

\* the text appended for a whole-chapter range that starts a new chapter
new_chapter_whole_text(r, st) ==
    IF r.end_chapter # r.start_chapter /\ r.end_verse < 0
    THEN Str(r.start_chapter) \o st.range_separator \o Str(r.end_chapter)
    ELSE Str(r.start_chapter)

\* the text appended for a range in the chapter current_chapter
same_chapter_text(r, st) ==
    LET start == Str(r.start_verse) \o r.start_subverse
    IN  IF r.end_chapter # r.start_chapter
           \/ r.end_verse # r.start_verse
           \/ r.end_subverse # r.start_subverse
        THEN (IF r.end_chapter # r.start_chapter
              THEN start \o st.range_separator \o Str(r.end_chapter)
                   \o st.chapter_verse_separator \o Str(r.end_verse)
              ELSE start \o st.range_separator \o Str(r.end_verse))
             \o r.end_subverse
        ELSE start

\* current_chapter is None (the empty tuple) or the tuple of one chapter
differs(current_chapter, chapter) ==
    current_chapter = <<>> \/ current_chapter[1] # chapter

RECURSIVE format_ranges(_, _, _, _, _, _)
\* the first loop of format, from range i on: the final formatted_ranges
format_ranges(rs, st, single, i, current_chapter, formatted_ranges) ==
    IF i > Len(rs) THEN formatted_ranges
    ELSE LET r == rs[i]
         IN  IF differs(current_chapter, r.start_chapter)
             THEN IF r.start_verse < 0
                  THEN IF single
                       THEN \* continue
                            format_ranges(rs, st, single, i + 1,
                                <<r.start_chapter>>, formatted_ranges)
                       ELSE format_ranges(rs, st, single, i + 1,
                                <<r.start_chapter>>,
                                Append(formatted_ranges,
                                       new_chapter_whole_text(r, st)))
                  ELSE format_ranges(rs, st, single, i + 1,
                           <<r.start_chapter>>,
                           Append(formatted_ranges,
                                  new_chapter_verse_text(r, st, single)))
             ELSE format_ranges(rs, st, single, i + 1, current_chapter,
                      Append(formatted_ranges, same_chapter_text(r, st)))

\* chapter_groups.append(style.verse_range_separator.join(current_group))
\* when current_group is not empty
flush_group(st, chapter_groups, current_group) ==
    IF Len(current_group) > 0
    THEN Append(chapter_groups, Join(st.verse_range_separator, current_group))
    ELSE chapter_groups

RECURSIVE group_ranges(_, _, _, _, _, _, _)
\* the second loop of format, from range i on: the final chapter_groups, or
\* "IndexError" when formatted_ranges[i] does not exist
group_ranges(rs, st, formatted_ranges, i, current_chapter, current_group, chapter_groups) ==
    IF i > Len(rs)
    THEN [kind |-> "ok",
          chapter_groups |-> flush_group(st, chapter_groups, current_group)]
    ELSE IF i > Len(formatted_ranges)
    THEN [kind |-> "IndexError", chapter_groups |-> <<>>]
    ELSE IF differs(current_chapter, rs[i].start_chapter)
    THEN group_ranges(rs, st, formatted_ranges, i + 1,
                      <<rs[i].start_chapter>>, <<formatted_ranges[i]>>,
                      flush_group(st, chapter_groups, current_group))
    ELSE group_ranges(rs, st, formatted_ranges, i + 1, current_chapter,
                      Append(current_group, formatted_ranges[i]),
                      chapter_groups)

\* format for a book id that is in style.names
format_known(ref, st, v) ==
    IF is_whole_book(ref)
    THEN [kind |-> "str", value |-> st.names[ref.book_id],
          formatted_ranges |-> <<>>]
    ELSE LET single == v.given /\ is_single_chapter(v, ref.book_id)
             formatted_ranges ==
                 format_ranges(ref.ranges, st, single, 1, <<>>, <<>>)
             groups == group_ranges(ref.ranges, st, formatted_ranges, 1,
                                    <<>>, <<>>, <<>>)
         IN  IF groups.kind = "IndexError"
             THEN [kind |-> "IndexError", value |-> <<>>,
                   formatted_ranges |-> formatted_ranges]
             ELSE [kind |-> "str",
                   value |-> st.names[ref.book_id] \o <<" ">>
                             \o Join(st.chapter_separator,
                                     groups.chapter_groups),
                   formatted_ranges |-> formatted_ranges]

\* format that looks up no name for a book the style does not know
format_unchecked(ref, st, v) ==
    IF ref.book_id \notin DOMAIN st.names
    THEN [kind |-> "str", value |-> <<>>, formatted_ranges |-> <<>>]
    ELSE format_known(ref, st, v)

\* format(style, versification): the returned str, or the exception raised;
\* formatted_ranges is the local list of the per-range texts
format(ref, st, v) ==
    IF ref.book_id \notin DOMAIN st.names
    THEN [kind |-> "ValueError", value |-> <<>>, formatted_ranges |-> <<>>]
    ELSE format_known(ref, st, v)

(***************************************************************************)
(* pyparsing elements.  A position is the 1-based index of the next        *)
(* character; every element returns ok and the position after its match.  *)
(***************************************************************************)
NoMatch == [ok |-> FALSE, loc |-> 0, start |-> 0, value |-> <<>>]

RECURSIVE preParse(_, _)
\* skip the whitespace in front of an element
preParse(s, loc) ==
    IF loc <= Len(s) /\ s[loc] \in Whitespace
    THEN preParse(s, loc + 1) ELSE loc

RECURSIVE WordEndLoc(_, _, _)
\* the position after the run of characters of chars that starts at loc
WordEndLoc(s, loc, chars) ==
    IF loc <= Len(s) /\ s[loc] \in chars
    THEN WordEndLoc(s, loc + 1, chars) ELSE loc

RECURSIVE IntOf(_)
\* int(digits)
IntOf(digits) ==
    IF Len(digits) = 0 THEN 0
    ELSE 10 * IntOf(SubSeq(digits, 1, Len(digits) - 1))
         + DigitValue(digits[Len(digits)])

\* pp.Literal(lit)
Literal(s, loc, lit) ==
    LET p == preParse(s, loc)
    IN  IF StartsWithAt(s, lit, p)
        THEN [ok |-> TRUE, loc |-> p + Len(lit), start |-> p, value |-> lit]
        ELSE NoMatch

\* pp.one_of(strs): the longest of strs that the text continues with
one_of(s, loc, strs) ==
    LET p == preParse(s, loc)
        found == {n \in strs : StartsWithAt(s, n, p)}
    IN  IF found = {} THEN NoMatch
        ELSE LET n == CHOOSE m \in found :
                          \A o \in found : Len(o) <= Len(m)
             IN  [ok |-> TRUE, loc |-> p + Len(n), start |-> p, value |-> n]

\* common.integer, used for chapter and verse
integer(s, loc) ==
    LET p == preParse(s, loc)
        e == WordEndLoc(s, p, Digits)
    IN  IF e > p
        THEN [ok |-> TRUE, loc |-> e, start |-> p,
              value |-> IntOf(SubSeq(s, p, e - 1))]
        ELSE NoMatch

\* subverse: pp.Word(lowercase, max=2).leave_whitespace() + pp.WordEnd(lowercase)
subverse(s, loc) ==
    LET e == WordEndLoc(s, loc, Lower)
    IN  IF e > loc /\ e - loc <= 2
        THEN [ok |-> TRUE, loc |-> e, start |-> loc,
              value |-> SubSeq(s, loc, e - 1)]
        ELSE NoMatch

\* optional_subverse: pp.Opt(subverse) with the action t[0] if t else ""
optional_subverse(s, loc) ==
    LET m == subverse(s, loc)
    IN  IF m.ok THEN m
        ELSE [ok |-> TRUE, loc |-> loc, start |-> loc, value |-> <<>>]

\* range_separator built as for strict=False whatever strict is
range_separator_lenient(s, loc, st, strict) ==
    one_of(s, loc, {<<"-">>, <<"ndash">>, st.range_separator})

\* range_separator as built in _build_parser
range_separator(s, loc, st, strict) ==
    IF strict THEN Literal(s, loc, st.range_separator)
    ELSE one_of(s, loc, {<<"-">>, <<"ndash">>, st.range_separator})

(***************************************************************************)
(* The grammar of RefParser._build_parser and its parse actions.  An       *)
(* expression of the grammar takes the tokens matched so far (with the     *)
(* position reached) and returns them extended by its own match, or        *)
(* NoTokens when it does not match.                                        *)
(***************************************************************************)
NoTokens ==
    [ok |-> FALSE, loc |-> 0, names |-> {}, book |-> "",
     start_chapter |-> 0, start_verse |-> 0, start_subverse |-> <<>>,
     end_chapter |-> 0, end_verse |-> 0, end_subverse |-> <<>>,
     verse_ranges |-> <<>>, chapter_ranges |-> <<>>,
     end_location |-> 0, verse_ranges_location |-> 0,
     chapter_ranges_location |-> 0,
     verse_texts |-> <<>>, chapter_texts |-> <<>>, last |-> 0]

\* no tokens yet, at position loc
tokens_at(loc) == [NoTokens EXCEPT !.ok = TRUE, !.loc = loc, !.last = loc]

\* element.set_results_name(key) after the tokens r, m being its match
set_results_name(r, m, key) ==
    IF r.ok /\ m.ok
    THEN [r EXCEPT !.loc = m.loc, !.last = m.loc,
                   !.names = @ \cup {key}, ![key] = m.value]
    ELSE NoTokens

\* an element after the tokens r whose match m gets no results name
unnamed(r, m) ==
    IF r.ok /\ m.ok THEN [r EXCEPT !.loc = m.loc, !.last = m.loc]
    ELSE NoTokens

\* pp.Opt(expr): a is the match of expr after the tokens r
Opt(r, a) == IF a.ok THEN a ELSE r

\* a | b
MatchFirst(a, b) == IF a.ok THEN a ELSE b

\* location_marker.copy().set_results_name(key): pp.Empty(), which skips
\* whitespace as every element does, with the action that returns loc
location_marker(r, s, key) ==
    IF r.ok
    THEN [r EXCEPT !.loc = preParse(s, r.loc), !.names = @ \cup {key},
                   ![key] = preParse(s, r.loc)]
    ELSE NoTokens

RECURSIVE find(_, _, _)
\* s.find(p, start) in positions from 1: the first position from start on
\* where p stands in s, or 0 (the -1 of Python)
find(s, p, start) ==
    IF start + Len(p) - 1 > Len(s) THEN 0
    ELSE IF StartsWithAt(s, p, start) THEN start
    ELSE find(s, p, start + 1)

\* original_text[loc:end] without strip()
unstripped_slice(s, loc, end) == SubSeq(s, loc, end - 1)

\* original_text[loc:end].strip(), loc and end being positions from 1
stripped_slice(s, loc, end) == Strip(SubSeq(s, loc, end - 1))

\* chapter.copy() or verse.copy() with a results name
integer_named(r, s, key) == set_results_name(r, integer(s, r.loc), key)

\* subverse.copy().set_results_name(key)
subverse_named(r, s, key) == set_results_name(r, subverse(s, r.loc), key)

\* optional_subverse.set_results_name(key)
optional_subverse_named(r, s, key) ==
    set_results_name(r, optional_subverse(s, r.loc), key)

\* a literal without a results name: a separator, or the following_verse
\* and following_verses literals (set_name names the element, not a result)
literal(r, s, lit) == unnamed(r, Literal(s, r.loc, lit))

\* pp.Opt(chapter.copy().set_results_name("end_chapter")
\*        + self.style.chapter_verse_separator)
opt_end_chapter(r, s, st) ==
    Opt(r, literal(integer_named(r, s, "end_chapter"), s,
                   st.chapter_verse_separator))

\* the end of a range after the range separator: [chapter cvs] verse
\* [subverse], the chapter only in the grammar for books with chapters, or
\* else a bare subverse
range_end(r, s, st, with_chapter) ==
    MatchFirst(
        optional_subverse_named(
            integer_named(IF with_chapter THEN opt_end_chapter(r, s, st)
                          ELSE r,
                          s, "end_verse"),
            s, "end_subverse"),
        subverse_named(r, s, "end_subverse"))

\* range_separator + the end of the range
separated_range_end(r, s, st, strict, with_chapter) ==
    range_end(unnamed(r, range_separator(s, r.loc, st, strict)), s, st,
              with_chapter)

\* the optional tail of a verse range: the following_verses literal, the
\* following_verse literal, or a range separator and the end of the range
range_tail(r, s, st, strict, with_chapter) ==
    Opt(r, MatchFirst(literal(r, s, st.following_verses),
               MatchFirst(literal(r, s, st.following_verse),
                   separated_range_end(r, s, st, strict, with_chapter))))

\* the tokens of verse_range (with_chapter) and of sc_verse_range, up to
\* the location marker named end_location
verse_range_tokens(r, s, st, strict, with_chapter) ==
    location_marker(
        range_tail(
            optional_subverse_named(integer_named(r, s, "start_verse"),
                                    s, "start_subverse"),
            s, st, strict, with_chapter),
        s, "end_location")

\* the fields computed from the tokens when the letters after the start
\* verse are taken for a token of the style whatever follows them
make_range_by_letters(tokens, st, start_chapter) ==
    IF tokens.start_subverse \in {st.following_verse, st.following_verses}
    THEN VerseRange(start_chapter, tokens.start_verse, <<>>, start_chapter,
                    IF tokens.start_subverse = st.following_verse
                    THEN tokens.start_verse + 1 ELSE -1,
                    <<>>)
    ELSE VerseRange(start_chapter, tokens.start_verse, tokens.start_subverse,
                    IF "end_chapter" \in tokens.names
                    THEN tokens.end_chapter ELSE start_chapter,
                    IF "end_verse" \in tokens.names
                    THEN tokens.end_verse ELSE tokens.start_verse,
                    IF "end_subverse" \in tokens.names
                    THEN tokens.end_subverse ELSE tokens.start_subverse)

\* the fields computed by _make_verse_range and _make_sc_verse_range from
\* the tokens, given the start chapter each of them begins with
make_range(tokens, st, start_chapter) ==
    LET by_subverse_f ==
            tokens.start_subverse = st.following_verse
            /\ "end_verse" \notin tokens.names
        subverse_1 == IF by_subverse_f THEN <<>> ELSE tokens.start_subverse
        has_following_verse == by_subverse_f
        by_subverse_ff ==
            subverse_1 = st.following_verses
            /\ "end_verse" \notin tokens.names
        start_subverse == IF by_subverse_ff THEN <<>> ELSE subverse_1
        has_following_verses == by_subverse_ff
    IN  IF has_following_verse \/ has_following_verses
        THEN VerseRange(start_chapter, tokens.start_verse, start_subverse,
                        start_chapter,
                        IF has_following_verse
                        THEN tokens.start_verse + 1 ELSE -1,
                        <<>>)
        ELSE VerseRange(start_chapter, tokens.start_verse, start_subverse,
                        IF "end_chapter" \in tokens.names
                        THEN tokens.end_chapter ELSE start_chapter,
                        IF "end_verse" \in tokens.names
                        THEN tokens.end_verse ELSE tokens.start_verse,
                        IF "end_subverse" \in tokens.names
                        THEN tokens.end_subverse ELSE start_subverse)

_make_verse_range(tokens, st) == make_range(tokens, st, -1)

_make_sc_verse_range(tokens, st) == make_range(tokens, st, 1)

\* set_parse_action of verse_range and of sc_verse_range, called with the
\* position loc where the match starts: the VerseRange made takes the place
\* of the tokens it was made from; its original_text is kept in verse_texts
verse_range_made(tokens, loc, s, st, with_chapter) ==
    IF tokens.ok
    THEN [tokens EXCEPT
             !.names = @ \ {"start_verse", "start_subverse", "end_chapter",
                            "end_verse", "end_subverse", "end_location"},
             !.verse_ranges =
                 Append(@, IF with_chapter
                           THEN _make_verse_range(tokens, st)
                           ELSE _make_sc_verse_range(tokens, st)),
             !.verse_texts =
                 Append(@, stripped_slice(s, loc, tokens.end_location))]
    ELSE NoTokens

\* verse_range (with_chapter) and sc_verse_range
verse_range(r, s, st, strict, with_chapter) ==
    verse_range_made(verse_range_tokens(r, s, st, strict, with_chapter),
                     preParse(s, r.loc), s, st, with_chapter)

\* the delimiter of verse_ranges and of sc_verse_ranges
verse_ranges_delim == Strip(Style_verse_range_separator)

\* delim + verse_range, one round of the repetition of pp.DelimitedList
next_verse_range(r, s, st, strict, with_chapter) ==
    verse_range(literal(r, s, verse_ranges_delim), s, st, strict,
                with_chapter)

RECURSIVE more_verse_ranges(_, _, _, _, _, _)
\* the repetition (delim + verse_range)* of pp.DelimitedList: next is the
\* match of one more round after the tokens r
more_verse_ranges(r, next, s, st, strict, with_chapter) ==
    IF next.ok
    THEN more_verse_ranges(next,
             next_verse_range(next, s, st, strict, with_chapter),
             s, st, strict, with_chapter)
    ELSE r

\* pp.DelimitedList(verse_range, delim) from the match of its first element
verse_ranges_from(first, s, st, strict, with_chapter) ==
    more_verse_ranges(first,
        next_verse_range(first, s, st, strict, with_chapter),
        s, st, strict, with_chapter)

\* verse_ranges (with_chapter) and sc_verse_ranges without the results name
verse_ranges(r, s, st, strict, with_chapter) ==
    verse_ranges_from(verse_range(r, s, st, strict, with_chapter),
                      s, st, strict, with_chapter)

RECURSIVE _make_chapter_range_declared(_, _, _, _)
\* the loop with every range starting in the declared chapter of the group
_make_chapter_range_declared(this_chapter, rs, i, done) ==
    IF i > Len(rs) THEN done
    ELSE _make_chapter_range_declared(this_chapter, rs, i + 1,
             Append(done, [rs[i] EXCEPT
                              !.start_chapter = this_chapter,
                              !.end_chapter =
                                  IF @ < 0 THEN this_chapter ELSE @]))

RECURSIVE _make_chapter_range(_, _, _, _)
\* the loop of _make_chapter_range from range i on: the ranges with their
\* chapters set
_make_chapter_range(this_chapter, rs, i, done) ==
    IF i > Len(rs) THEN done
    ELSE IF rs[i].end_chapter < 0
    THEN _make_chapter_range(this_chapter, rs, i + 1,
             Append(done, [rs[i] EXCEPT !.start_chapter = this_chapter,
                                        !.end_chapter = this_chapter]))
    ELSE _make_chapter_range(rs[i].end_chapter, rs, i + 1,
             Append(done, [rs[i] EXCEPT !.start_chapter = this_chapter]))

\* the original_text of the first range left as the verse range made it
expanded_text_unexpanded(s, loc, text_0, location) == text_0

\* the original_text that _make_chapter_range and _make_simple_ref give
\* the first of their ranges: the text from loc, where the chapter number
\* or the book name starts, to the end of that range's text
expanded_text(s, loc, text_0, location) ==
    SubSeq(s, loc, find(s, text_0, location) + Len(text_0) - 1)

\* the ranges of a chapter range returned as the verse ranges made them
chapter_range_made_as_made(tokens, loc, s) ==
    IF tokens.ok
    THEN [tokens EXCEPT
             !.names = @ \ {"start_chapter", "verse_ranges_location"},
             !.chapter_ranges = @ \o tokens.verse_ranges,
             !.chapter_texts =
                 @ \o <<expanded_text(s, loc, tokens.verse_texts[1],
                                      tokens.verse_ranges_location)>>
                   \o Tail(tokens.verse_texts),
             !.verse_ranges = <<>>,
             !.verse_texts = <<>>]
    ELSE NoTokens

\* set_parse_action(self._make_chapter_range), called with the position
\* loc where the match starts: the ranges returned take the place of the
\* tokens of the chapter range
chapter_range_made(tokens, loc, s) ==
    IF tokens.ok
    THEN [tokens EXCEPT
             !.names = @ \ {"start_chapter", "verse_ranges_location"},
             !.chapter_ranges =
                 @ \o _make_chapter_range(tokens.start_chapter,
                                          tokens.verse_ranges, 1, <<>>),
             !.chapter_texts =
                 @ \o <<expanded_text(s, loc, tokens.verse_texts[1],
                                      tokens.verse_ranges_location)>>
                   \o Tail(tokens.verse_texts),
             !.verse_ranges = <<>>,
             !.verse_texts = <<>>]
    ELSE NoTokens

\* chapter_range: chapter, chapter_verse_separator, location marker,
\* verse_ranges
chapter_range(r, s, st, strict) ==
    chapter_range_made(
        verse_ranges(
            location_marker(
                literal(integer_named(r, s, "start_chapter"), s,
                        st.chapter_verse_separator),
                s, "verse_ranges_location"),
            s, st, strict, TRUE),
        preParse(s, r.loc), s)

\* delim + chapter_range, one round of the repetition of pp.DelimitedList
next_chapter_range(r, s, st, strict) ==
    chapter_range(literal(r, s, Strip(st.chapter_separator)), s, st, strict)

RECURSIVE more_chapter_ranges(_, _, _, _, _)
\* the repetition (delim + chapter_range)* of pp.DelimitedList: next is the
\* match of one more round after the tokens r
more_chapter_ranges(r, next, s, st, strict) ==
    IF next.ok
    THEN more_chapter_ranges(next, next_chapter_range(next, s, st, strict),
                             s, st, strict)
    ELSE r

\* pp.DelimitedList(chapter_range, delim) from the match of its first
\* element
chapter_ranges_from(first, s, st, strict) ==
    more_chapter_ranges(first, next_chapter_range(first, s, st, strict),
                        s, st, strict)

\* set_results_name("chapter_ranges") of chapter_ranges
chapter_ranges_named(tokens) ==
    IF tokens.ok
    THEN [tokens EXCEPT !.names = @ \cup {"chapter_ranges"}]
    ELSE NoTokens

\* chapter_ranges: pp.DelimitedList(chapter_range, chapter_separator.strip())
chapter_ranges(r, s, st, strict) ==
    chapter_ranges_named(
        chapter_ranges_from(chapter_range(r, s, st, strict), s, st, strict))

\* set_results_name("chapter_ranges") of sc_verse_ranges
sc_verse_ranges_named(tokens) ==
    IF tokens.ok
    THEN [tokens EXCEPT !.names = @ \cup {"chapter_ranges"},
                        !.chapter_ranges = tokens.verse_ranges,
                        !.chapter_texts = tokens.verse_texts,
                        !.verse_ranges = <<>>,
                        !.verse_texts = <<>>]
    ELSE NoTokens

\* sc_verse_ranges
sc_verse_ranges(r, s, st, strict) ==
    sc_verse_ranges_named(verse_ranges(r, s, st, strict, FALSE))

\* the parse action of book and of sc_book: the name becomes the book ID
recognized(m, st) ==
    IF m.ok THEN [m EXCEPT !.value = st.recognized_names[m.value]]
    ELSE NoMatch

\* book.copy().set_results_name("book"), for the book names given
book(r, s, st, names) ==
    set_results_name(r, recognized(one_of(s, r.loc, names), st), "book")

\* the original_text of a reference or range that was not parsed (None)
NoneText == <<"None">>

\* no result of parse_simple
NoParse ==
    [kind |-> "", book_id |-> "", ranges |-> <<>>,
     original_text |-> NoneText, range_texts |-> <<>>]

NoRef ==
    [ok |-> FALSE, loc |-> 0, start |-> 0, last |-> 0, book_id |-> "",
     ranges |-> <<>>, original_text |-> <<>>, range_texts |-> <<>>]

\* the original_text of the ranges as _make_simple_ref leaves them: the
\* first one expanded to begin with the book name
simple_ref_range_texts(texts, loc, s, location) ==
    IF texts = <<>> THEN <<>>
    ELSE <<expanded_text(s, loc, texts[1], location)>> \o Tail(texts)

\* _make_simple_ref, called with the position loc where the match starts:
\* the book ID, ranges and original_text of the SimpleBibleRef made, and in
\* range_texts the original_text of each range
_make_simple_ref(tokens, loc, s) ==
    IF tokens.ok
    THEN [ok |-> TRUE, loc |-> tokens.loc, start |-> loc,
          last |-> tokens.last, book_id |-> tokens.book,
          ranges |-> IF "chapter_ranges" \in tokens.names
                     THEN tokens.chapter_ranges ELSE tokens.verse_ranges,
          original_text |-> stripped_slice(s, loc, tokens.end_location),
          range_texts |->
              simple_ref_range_texts(
                  IF "chapter_ranges" \in tokens.names
                  THEN tokens.chapter_texts ELSE tokens.verse_texts,
                  loc, s, tokens.chapter_ranges_location)]
    ELSE NoRef

\* book_chapter_verse_ranges with the action _make_simple_ref, book being
\* pp.one_of of the names given
book_chapter_verse_ranges_of(r, s, st, names, strict) ==
    _make_simple_ref(
        location_marker(
            chapter_ranges(
                location_marker(book(r, s, st, names),
                                s, "chapter_ranges_location"),
                s, st, strict),
            s, "end_location"),
        preParse(s, r.loc), s)

\* book_chapter_verse_ranges of a parser built from the style st as it is
book_chapter_verse_ranges(r, s, st, strict) ==
    book_chapter_verse_ranges_of(r, s, st, DOMAIN st.recognized_names,
                                 strict)

\* the names of the books that the versification says have one chapter
sc_books(st, v) ==
    {name \in DOMAIN st.recognized_names :
        is_single_chapter(v, st.recognized_names[name])}

\* sc_book_verse_ranges with the action _make_simple_ref, sc_book being
\* pp.one_of of the names given
sc_book_verse_ranges_of(r, s, st, names, strict) ==
    _make_simple_ref(
        location_marker(
            sc_verse_ranges(
                location_marker(book(r, s, st, names), s,
                                "chapter_ranges_location"),
                s, st, strict),
            s, "end_location"),
        preParse(s, r.loc), s)

\* sc_book_verse_ranges of a parser built from the style st as it is
sc_book_verse_ranges(r, s, st, v, strict) ==
    sc_book_verse_ranges_of(r, s, st, sc_books(st, v), strict)

\* the two grammars tried in the other order
simple_ref_parser_sc_first(s, loc, st, v, strict) ==
    MatchFirst(sc_book_verse_ranges(tokens_at(loc), s, st, v, strict),
               book_chapter_verse_ranges(tokens_at(loc), s, st, strict))

\* simple_ref_parser = book_chapter_verse_ranges | sc_book_verse_ranges
simple_ref_parser(s, loc, st, v, strict) ==
    MatchFirst(book_chapter_verse_ranges(tokens_at(loc), s, st, strict),
               sc_book_verse_ranges(tokens_at(loc), s, st, v, strict))

\* parse_string without parse_all: a match of the start of the text is
\* enough
parse_all_prefix(m, s, silent) ==
    IF m.ok
    THEN [kind |-> "SimpleBibleRef", book_id |-> m.book_id,
          ranges |-> m.ranges, original_text |-> m.original_text,
          range_texts |-> m.range_texts]
    ELSE [NoParse EXCEPT
             !.kind = IF silent THEN "None" ELSE "ParseException"]

\* parse_string(text, parse_all=True) having matched m: the reference
\* returned by parse_simple, or kind "None" (silent) or "ParseException"
parse_all(m, s, silent) ==
    IF m.ok /\ preParse(s, m.loc) > Len(s)
    THEN [kind |-> "SimpleBibleRef", book_id |-> m.book_id,
          ranges |-> m.ranges, original_text |-> m.original_text,
          range_texts |-> m.range_texts]
    ELSE [NoParse EXCEPT
             !.kind = IF silent THEN "None" ELSE "ParseException"]

\* parse_simple(text, silent)
parse_simple(s, st, v, strict, silent) ==
    parse_all(simple_ref_parser(s, 1, st, v, strict), s, silent)

\* RefParser(style, versification, strict): the parser object.  It holds
\* the style itself, which the caller can still change; its grammar holds
\* the names that book and sc_book were built from by _build_parser
RefParser(st, v, strict) ==
    [kind |-> "RefParser", shares |-> TRUE, value |-> st, strict |-> strict,
     book |-> DOMAIN st.recognized_names, sc_book |-> sc_books(st, v)]

\* parse_simple on a parser whose grammar is built anew from the style as
\* it is at the call
RefParser_parse_simple_rebuilt(p, s, silent) ==
    parse_simple(s, p.value, eng, p.strict, silent)

\* parser.parse_simple(text, silent) on a parser object: the grammar built
\* at construction matches, the parse action of book looks the name up in
\* the style's recognized_names as they are at the call
RefParser_parse_simple(p, s, silent) ==
    parse_all(
        MatchFirst(
            book_chapter_verse_ranges_of(tokens_at(1), s, p.value, p.book,
                                         p.strict),
            sc_book_verse_ranges_of(tokens_at(1), s, p.value, p.sc_book,
                                    p.strict)),
        s, silent)

\* SimpleBibleRef.ranges_iter with the original_text of the reference
\* instead of that of the range
ranges_iter_of_ref(r) ==
    [i \in 1..Len(r.ranges) |->
        [book_id |-> r.book_id, ranges |-> <<r.ranges[i]>>,
         original_text |-> r.original_text,
         range_texts |-> <<r.range_texts[i]>>]]

\* SimpleBibleRef.ranges_iter: one reference for each range, holding the
\* range itself and, as original_text, the range's original_text
ranges_iter(r) ==
    [i \in 1..Len(r.ranges) |->
        [book_id |-> r.book_id, ranges |-> <<r.ranges[i]>>,
         original_text |-> r.range_texts[i],
         range_texts |-> <<r.range_texts[i]>>]]

\* the SimpleBibleRef of a match
matched_ref(m) ==
    [book_id |-> m.book_id, ranges |-> m.ranges,
     original_text |-> m.original_text, range_texts |-> m.range_texts]

RECURSIVE scan_string(_, _, _, _)
RECURSIVE scan_next(_, _, _, _, _)
\* the scan having tried the grammar at loc with outcome m: a match is
\* yielded with the span from its first to its last character and the scan
\* goes on after it; otherwise the scan goes on one character further
scan_next(m, s, loc, st, v) ==
    IF m.ok
    THEN <<[ref |-> matched_ref(m), start |-> m.start, end |-> m.last]>>
         \o scan_string(s, m.loc, st, v)
    ELSE scan_string(s, loc + 1, st, v)

\* the references found in s from loc on, leftmost first, none overlapping
\* another
scan_string(s, loc, st, v) ==
    IF loc > Len(s) THEN <<>>
    ELSE scan_next(simple_ref_parser(s, loc, st, v, FALSE), s,
                   preParse(s, loc), st, v)

RECURSIVE range_spans(_, _, _, _)
\* the references of the ranges of one match, each with the span where its
\* original_text stands, looked for after the span of the range before
range_span_at(refs, s, i, at) ==
    <<[ref |-> refs[i], start |-> at,
       end |-> at + Len(refs[i].original_text)]>>
    \o range_spans(refs, s, i + 1, at + Len(refs[i].original_text))

range_spans(refs, s, i, from) ==
    IF i > Len(refs) THEN <<>>
    ELSE range_span_at(refs, s, i, find(s, refs[i].original_text, from))

RECURSIVE exploded(_, _, _)
\* as_ranges: every yielded reference gives way to the references of its
\* ranges
exploded(ys, s, i) ==
    IF i > Len(ys) THEN <<>>
    ELSE range_spans(ranges_iter(ys[i].ref), s, 1, ys[i].start)
         \o exploded(ys, s, i + 1)

\* scan_string_simple(text, as_ranges)
scan_string_simple(s, st, v, as_ranges) ==
    IF as_ranges THEN exploded(scan_string(s, 1, st, v), s, 1)
    ELSE scan_string(s, 1, st, v)

(***************************************************************************)
(* The callers.  A caller either builds a SimpleBibleRef directly or has   *)
(* a RefParser parse a text; it then formats the reference, parses the     *)
(* formatted text again, or asks whether the reference is valid.           *)
(***************************************************************************)
Subverses == {<<>>, <<"a">>}

Verses == {-1} \cup (1..MaxVerse)

\* every VerseRange a caller can construct within the bounds
AllRanges ==
    {VerseRange(sc, sv, ss, ec, ev, es) :
        sc \in 0..MaxChapter, ec \in 0..MaxChapter,
        sv \in Verses, ev \in Verses,
        ss \in Subverses, es \in Subverses}

\* the ranges used in references of several ranges: allowed values, in
\* chapters from 1, with subverses only where the range stays within one
\* verse
ListRanges ==
    {r \in AllRanges :
        /\ VerseRange_is_valid(r)
        /\ r.start_chapter >= 1
        /\ (r.start_subverse # <<>> \/ r.end_subverse # <<>>) =>
               /\ r.end_chapter = r.start_chapter
               /\ r.end_verse = r.start_verse
               /\ r.end_verse >= 0}

\* the ranges used in references of more than two ranges: those within one
\* chapter and without subverses that end at their start verse or at the
\* end of the chapter (a verse, a verse and what follows, a whole chapter)
LongListRanges ==
    {r \in ListRanges :
        /\ r.end_chapter = r.start_chapter
        /\ r.end_verse \in {r.start_verse, -1}
        /\ r.start_subverse = <<>> /\ r.end_subverse = <<>>}

\* the ranges that a reference of n ranges draws on
ListRangesOf(n) == IF n <= 2 THEN ListRanges ELSE LongListRanges

RangeLists ==
    {<<>>} \cup {<<r>> : r \in AllRanges}
    \cup UNION {[1..n -> ListRangesOf(n)] : n \in 2..MaxRanges}

NoFormat == [kind |-> "", value |-> <<>>, formatted_ranges |-> <<>>,
             style |-> "", versification |-> ""]


ref == SimpleBibleRef(book_id, ranges)

(***************************************************************************)
(* The texts handed to parse_simple.  A text is written for a style as a   *)
(* book name and a list of entries.  An entry is a verse item, preceded    *)
(* by its chapter when it opens a chapter group (chapter 0: the item       *)
(* continues the group, or, first in the text, the chapter is left out as  *)
(* for a book of one chapter).                                             *)
(***************************************************************************)
Item(v, sub, tail, gap, ec, ev, es) ==
    [verse |-> v, sub |-> sub, tail |-> tail, gap |-> gap,
     end_chapter |-> ec, end_verse |-> ev, end_sub |-> es]

\* a letter after the verse that stands for the style's following_verse
\* token used as a subverse
FvSub == <<"FV">>

\* letters after the verse that stand for the style's following_verses
\* token used as a subverse
FvsSub == <<"FVS">>

\* the items of a text of one entry
Items ==
    {Item(v, sub, "none", FALSE, 0, 0, <<>>) :
        v \in 1..MaxVerse, sub \in Subverses}
    \cup {Item(v, sub, t, gap, 0, 0, <<>>) :
        v \in 1..MaxVerse, sub \in Subverses, t \in {"f", "ff"},
        gap \in BOOLEAN}
    \cup {Item(v, sub, "verse", FALSE, 0, ev, es) :
        v \in 1..MaxVerse, sub \in Subverses \cup {FvSub},
        ev \in 1..MaxVerse, es \in Subverses}
    \cup {Item(v, sub, "chapter_verse", FALSE, ec, ev, es) :
        v \in 1..MaxVerse, sub \in Subverses \cup {FvSub},
        ec \in 1..MaxChapter, ev \in 1..MaxVerse, es \in Subverses}
    \cup {Item(v, sub, "subverse", FALSE, 0, 0, <<"b">>) :
        v \in 1..MaxVerse, sub \in Subverses \cup {FvSub}}

\* the items of a text of several entries
ListItems ==
    {it \in Items :
        /\ ~it.gap
        /\ it.sub = <<>> \/ it.tail = "subverse"
        /\ it.sub # FvSub
        /\ it.end_sub = <<>> \/ it.tail = "subverse"
        /\ it.tail = "verse" => it.end_verse > it.verse
        /\ it.tail = "chapter_verse" =>
               it.end_chapter = MaxChapter /\ it.end_verse = 1}

Entry(c, it) == [chapter |-> c, item |-> it]

\* the entries of a text of several entries: the chapter is left out at the
\* start only if it is left out throughout
\* the items of a text of more than two entries: a verse alone, or a verse
\* and the verses that follow
LongListItems == {it \in ListItems : it.tail \in {"none", "ff"}}

\* the items that a text of n entries draws on
ListItemsOf(n) == IF n <= 2 THEN ListItems ELSE LongListItems

EntryLists ==
    UNION {
        {es \in [1..n -> {Entry(c, it) : c \in 0..MaxChapter,
                                         it \in ListItemsOf(n)}] :
            es[1].chapter = 0 => \A k \in 1..n : es[k].chapter = 0}
        : n \in 2..MaxEntries}

NoWritten ==
    [style |-> "", book |-> "", rs |-> <<>>, entries |-> <<>>,
     before |-> <<>>, after |-> <<>>, silent |-> TRUE, strict |-> FALSE]

\* a reference written in the notation of style st, with nothing around it,
\* to be parsed with silent=True by a parser built with strict=False
Written(st, b, rs, es) ==
    [style |-> st, book |-> b, rs |-> rs, entries |-> es,
     before |-> <<>>, after |-> <<>>, silent |-> TRUE, strict |-> FALSE]

\* the written references: one entry in every notation, with a hyphen or an
\* en dash between the ends of a range; several entries with a hyphen, the
\* chapter left out exactly for the book of one chapter
WrittenRefs ==
    {Written(st, b, rs, <<Entry(c, it)>>) :
        st \in StyleIds, b \in Books, rs \in {<<"-">>, <<"ndash">>},
        c \in 0..MaxChapter, it \in Items}
    \cup {w \in {Written(st, b, <<"-">>, es) :
                      st \in StyleIds, b \in Books, es \in EntryLists} :
              (w.entries[1].chapter = 0) = is_single_chapter(eng, w.book)}

\* what a caller's text can hold before and after a written reference
Before == {<<>>, <<" ">>, <<"x", " ">>}

After == {<<>>, <<" ">>, <<" ", "x">>, <<";">>}

\* the texts of callers of parse_simple(text, silent): a reference of one
\* entry, written with a hyphen, and what stands around it
NoisyRefs ==
    {[w EXCEPT !.before = b, !.after = a, !.silent = silent] :
        w \in {x \in WrittenRefs : Len(x.entries) = 1 /\ x.rs = <<"-">>},
        b \in Before, a \in After, silent \in BOOLEAN}

\* the texts of a verse with or without a following_verse or
\* following_verses token right after it, in the notation of a style, with
\* the chapter or without it
TokenRefs ==
    {Written(st, b, <<"-">>,
             <<Entry(c, Item(v, <<>>, t, FALSE, 0, 0, <<>>))>>) :
        st \in StyleIds \cup {"sqq"}, b \in Books, c \in 0..MaxChapter,
        v \in 1..MaxVerse, t \in {"none", "f", "ff"}}

\* the items of the texts that try the grammar of a verse range: a verse,
\* letters after it or none, and every tail, with or without a blank before
\* a following_verse or following_verses token
GrammarItems ==
    {Item(v, sub, "none", FALSE, 0, 0, <<>>) :
        v \in 1..MaxVerse, sub \in Subverses}
    \cup {Item(v, sub, t, gap, 0, 0, <<>>) :
        v \in 1..MaxVerse, sub \in Subverses, t \in {"f", "ff"},
        gap \in BOOLEAN}
    \cup {Item(v, sub, "verse", FALSE, 0, ev, <<>>) :
        v \in 1..MaxVerse, sub \in Subverses \cup {FvSub, FvsSub},
        ev \in 1..MaxVerse}
    \cup {Item(v, sub, "chapter_verse", FALSE, MaxChapter, ev, <<>>) :
        v \in 1..MaxVerse, sub \in Subverses \cup {FvSub, FvsSub},
        ev \in 1..MaxVerse}
    \cup {Item(v, sub, "subverse", FALSE, 0, 0, <<"b">>) :
        v \in 1..MaxVerse, sub \in Subverses \cup {FvSub, FvsSub}}

\* the texts of one entry handed to a parser built with strict=True or
\* with strict=False, a hyphen or an en dash between the ends of a range
GrammarRefs ==
    {[Written(st, b, rs, <<Entry(c, it)>>) EXCEPT !.strict = strict] :
        st \in StyleIds, b \in Books, rs \in {<<"-">>, <<"ndash">>},
        c \in 0..MaxChapter, it \in GrammarItems, strict \in BOOLEAN}

\* the items of the texts that are scanned
ScanItems == {it \in ListItems : it.tail \in {"none", "ff", "verse"}}

\* the items that a scanned reference of n entries draws on
ScanItemsOf(n) ==
    IF n = 1 THEN ScanItems
    ELSE IF n = 2 THEN {it \in ScanItems : it.tail # "ff"}
    ELSE {it \in ScanItems : it.tail = "none" /\ it.verse = 1}

\* the entries of a scanned reference
ScanEntryLists ==
    UNION {
        {es \in [1..n -> {Entry(c, it) : c \in 0..MaxChapter,
                                         it \in ScanItemsOf(n)}] :
            es[1].chapter = 0 => \A k \in 1..n : es[k].chapter = 0}
        : n \in 1..MaxEntries}

\* the references that stand in the scanned texts, written with a hyphen
ScanWritten ==
    {w \in {Written(st, b, <<"-">>, es) :
                st \in StyleIds, b \in Books, es \in ScanEntryLists} :
        Len(w.entries) >= 2 =>
            (w.entries[1].chapter = 0) = is_single_chapter(eng, w.book)}

ItemText(it, st, rs) ==
    Str(it.verse)
    \o (IF it.sub = FvSub THEN st.following_verse
        ELSE IF it.sub = FvsSub THEN st.following_verses
        ELSE it.sub)
    \o (IF it.tail = "f"
        THEN (IF it.gap THEN <<" ">> ELSE <<>>) \o st.following_verse
        ELSE IF it.tail = "ff"
        THEN (IF it.gap THEN <<" ">> ELSE <<>>) \o st.following_verses
        ELSE IF it.tail = "verse"
        THEN rs \o Str(it.end_verse) \o it.end_sub
        ELSE IF it.tail = "chapter_verse"
        THEN rs \o Str(it.end_chapter) \o st.chapter_verse_separator
             \o Str(it.end_verse) \o it.end_sub
        ELSE IF it.tail = "subverse"
        THEN rs \o it.end_sub
        ELSE <<>>)

RECURSIVE EntriesText(_, _, _, _)
\* the text of entries i.. of a written reference
EntriesText(es, st, rs, i) ==
    IF i > Len(es) THEN <<>>
    ELSE (IF es[i].chapter = 0
          THEN (IF i = 1 THEN <<>> ELSE st.verse_range_separator)
          ELSE (IF i = 1 THEN <<>> ELSE st.chapter_separator)
               \o Str(es[i].chapter) \o st.chapter_verse_separator)
         \o ItemText(es[i].item, st, rs)
         \o EntriesText(es, st, rs, i + 1)

\* the text of a written reference
TextOf(w) ==
    LET st == StyleOf(w.style)
    IN  w.before \o st.names[w.book] \o <<" ">>
        \o EntriesText(w.entries, st, w.rs, 1) \o w.after

\* a second reference further on in a caller's text: verse 2 of a book,
\* with or without its chapter, after a word or a chapter separator
SecondRefs(st) ==
    {j \o TextOf(Written(st, b, <<"-">>,
                         <<Entry(c, Item(2, <<>>, "none", FALSE, 0, 0,
                                         <<>>))>>)) :
        j \in {<<" ", "x", " ">>, <<";", " ">>}, b \in Books, c \in {0, 1}}

\* what stands before and after the first reference of a scanned text:
\* nothing, words, or a second reference after it
Around(st) ==
    {<<<<>>, <<>>>>, <<<<"x", " ">>, <<" ", "x">>>>}
    \cup {<<<<>>, a>> : a \in SecondRefs(st)}

\* the texts of callers of scan_string_simple
ScanRefs ==
    UNION {{[w EXCEPT !.before = ba[1], !.after = ba[2]] :
               ba \in Around(w.style)} : w \in ScanWritten}

\* the answer of a query: none yet
NoAnswer ==
    [op |-> "", book |-> "", chapter |-> 0, value |-> 0,
     names |-> [kind |-> "", readable |-> FALSE, names |-> <<>>]]

\* no Style or Versification is being configured
Unconfigured ==
    /\ source = [kind |-> ""]
    /\ object = [kind |-> ""]
    /\ answer = NoAnswer

\* the last verses of the chapters of a book
ChapterLists ==
    UNION {[1..n -> 1..MaxVerse] : n \in 1..MaxChapter}

\* the maxVerses tables of a caller's data: for some of the books, the last
\* verses of its chapters
Tables ==
    UNION {[bs -> ChapterLists] : bs \in SUBSET Books}

\* the data a caller builds a Versification from: with maxVerses in either
\* shape, or without it
VersificationData ==
    {[kind |-> "data", readable |-> TRUE, has_max_verses |-> TRUE,
      shape |-> sh, table |-> t] :
        sh \in {"keyed", "list"}, t \in Tables}
    \cup {[kind |-> "data", readable |-> TRUE, has_max_verses |-> FALSE,
           shape |-> "keyed", table |-> <<>>]}

\* a file_path or a standard abbreviation that a caller builds a
\* Versification from: the file holds the table of eng, with or without
\* maxVerses, or there is no such file
VersificationFiles ==
    {[kind |-> k, readable |-> r, has_max_verses |-> h, shape |-> "keyed",
      table |-> eng.max_verses] :
        k \in {"file", "abbreviation"}, r \in BOOLEAN, h \in BOOLEAN}

\* the book ids of a caller's table of names: the two pairs that may share
\* a name, and a book apart from them
KnownIds == {"PSA", "PSAS", "EST", "ESG", "GEN"}

\* the names dicts of callers: some ids in some order, each with one of two
\* names
NameTables ==
    UNION {
        {d \in [1..n -> KnownIds \X {<<"P">>, <<"E">>}] :
            \A i, j \in 1..n : i # j => d[i][1] # d[j][1]}
        : n \in 1..MaxNames}

\* the arguments of also_recognize: a dict from names to ids, or the
\* identifier of a standard table of names, whose file is there or not
Incoming ==
    UNION {{[kind |-> "dict", readable |-> TRUE, names |-> f] :
               f \in [ns -> {"GEN"}]} :
           ns \in (SUBSET {<<"P">>, <<"X">>}) \ {{}}}
    \cup {[kind |-> "str", readable |-> r, names |-> <<>>] :
             r \in BOOLEAN}

\* the entries of an also_recognize list of from_dict: a dict, an
\* identifier, or a value that is neither
AlsoEntries ==
    {[kind |-> "dict", readable |-> TRUE,
      names |-> [n \in {<<"X">>} |-> "GEN"]],
     [kind |-> "str", readable |-> TRUE, names |-> <<>>],
     [kind |-> "other", readable |-> TRUE, names |-> <<>>]}

\* the value of also_recognize in the data of from_dict: left out, a list
\* of entries, or a value that is not a list
AlsoRecognizeValues ==
    {[kind |-> k, entries |-> <<>>] : k \in {"absent", "other"}}
    \cup {[kind |-> "list", entries |-> es] :
             es \in UNION {[1..n -> AlsoEntries] : n \in 1..2}}

\* the data of from_dict: names left out, an identifier, a dict or
\* something else; chapter_verse_separator left out, a str or something
\* else; also_recognize
StyleData ==
    {x \in {[kind |-> "dict", has_names |-> h, names_shape |-> sh,
             readable |-> r, names |-> d, separator |-> sep,
             also_recognize |-> ar] :
                h \in BOOLEAN, sh \in {"str", "dict", "other"},
                r \in BOOLEAN,
                d \in {t \in NameTables :
                          \/ Len(t) = 1
                          \/ Len(t) = 2 /\ t[1][1] = "GEN"
                             /\ t[2][1] = "EST"},
                sep \in {"absent", "str", "other"},
                ar \in AlsoRecognizeValues} :
        /\ x.names_shape = "dict" \/ x.names = <<<<"GEN", <<"P">>>>>>
        /\ x.names_shape = "str" \/ x.readable
        /\ x.has_names \/ x.names_shape = "other"}

\* the names dicts of the styles that parsers are built from: a name for
\* the book with chapters, for the book of one chapter, or for both
ParserNameTables ==
    UNION {
        {d \in [1..n -> {"GEN", "JUD"} \X {<<"P">>, <<"E">>}] :
            \A i, j \in 1..n : i # j => d[i][1] # d[j][1]}
        : n \in 1..2}

\* the arguments of also_recognize on the style of a parser: a dict that
\* gives a name the style may have, or a new name, to either book
ParserIncoming ==
    {[kind |-> "dict", readable |-> TRUE, names |-> f] :
        f \in UNION {[{n} -> {"GEN", "JUD"}] : n \in {<<"P">>, <<"X">>}}}

\* the texts handed to a parser after it was built: a name the style may
\* have, or a new name, with chapter and verse or with a verse alone
ParserTexts ==
    {n \o <<" ">> \o t :
        n \in {<<"P">>, <<"X">>},
        t \in {<<"1", ":", "1">>, <<"2">>}}

\* the identifier of a standard style or of a standard table of names
\* that a caller asks for: its file is in the package data or not
StandardIds ==
    {[kind |-> k, readable |-> r] :
        k \in {"style_id", "names_id"}, r \in BOOLEAN}

\* the original_text fields of a reference that a caller built from
\* numbers: None throughout
NoOriginalText(rs) ==
    [ref |-> NoneText, ranges |-> [i \in 1..Len(rs) |-> NoneText]]

InitRef ==
    /\ pc = "built"
    /\ text = <<>>
    /\ ranges \in RangeLists
    /\ book_id \in IF Len(ranges) <= 1 THEN Books \cup {UnknownBook}
                   ELSE Books
    /\ formatted = NoFormat
    /\ reparsed = NoParse
    /\ valid = FALSE
    /\ written = NoWritten
    /\ original_text = NoOriginalText(ranges)
    /\ yielded = <<>>
    /\ Unconfigured

Init == InitRef

\* a caller holds a text written for the style of its RefParser
InitText ==
    /\ pc = "text"
    /\ written \in WrittenRefs
    /\ text = TextOf(written)
    /\ book_id = ""
    /\ ranges = <<>>
    /\ formatted = NoFormat
    /\ reparsed = NoParse
    /\ valid = FALSE
    /\ original_text = NoOriginalText(<<>>)
    /\ yielded = <<>>
    /\ Unconfigured

\* the caller holds a text with a written reference and other text around
InitNoisy ==
    /\ pc = "text"
    /\ written \in NoisyRefs
    /\ text = TextOf(written)
    /\ book_id = ""
    /\ ranges = <<>>
    /\ formatted = NoFormat
    /\ reparsed = NoParse
    /\ valid = FALSE
    /\ original_text = NoOriginalText(<<>>)
    /\ yielded = <<>>
    /\ Unconfigured

\* RefParser(style, eng, strict).parse_simple(text, silent): the caller
\* gets a reference, None ("rejected") or the ParseException ("raised")
ParseSimple ==
    /\ pc = "text"
    /\ LET returned(r) ==
               IF r.kind = "SimpleBibleRef"
               THEN /\ pc' = "built"
                    /\ book_id' = r.book_id
                    /\ ranges' = r.ranges
                    /\ original_text' = [ref |-> r.original_text,
                                         ranges |-> r.range_texts]
               ELSE /\ pc' = IF r.kind = "None" THEN "rejected"
                              ELSE "raised"
                    /\ UNCHANGED <<book_id, ranges, original_text>>
       IN  returned(parse_simple(text, StyleOf(written.style), eng,
                                 written.strict, written.silent))
    /\ UNCHANGED <<text, formatted, reparsed, valid, written, yielded,
                   config>>

\* ref.format(style, versification)
Format(st, v) ==
    /\ pc = "built"
    /\ LET returned(f) ==
               formatted' = [kind |-> f.kind, value |-> f.value,
                             formatted_ranges |-> f.formatted_ranges,
                             style |-> st, versification |-> v]
       IN  returned(format(ref, StyleOf(st), VersificationOf(v)))
    /\ pc' = "formatted"
    /\ UNCHANGED <<text, book_id, ranges, reparsed, valid, written,
                   original_text, yielded, config>>

\* RefParser(style, eng).parse_simple(formatted text), for the style the
\* text was formatted with
Reparse ==
    /\ pc = "formatted"
    /\ formatted.kind = "str"
    /\ reparsed' = parse_simple(formatted.value, StyleOf(formatted.style),
                                eng, FALSE, TRUE)
    /\ pc' = "reparsed"
    /\ UNCHANGED <<text, book_id, ranges, formatted, valid, written,
                   original_text, yielded, config>>

\* ranges[0].is_valid()
RangeIsValid ==
    /\ pc = "built"
    /\ Len(ranges) = 1
    /\ valid' = VerseRange_is_valid(ranges[1])
    /\ pc' = "range_checked"
    /\ UNCHANGED <<text, book_id, ranges, formatted, reparsed, written,
                   original_text, yielded, config>>

\* ref.is_valid(versification)
IsValid(v) ==
    /\ pc = "built"
    /\ valid' = SimpleBibleRef_is_valid(ref, VersificationOf(v))
    /\ formatted' = [NoFormat EXCEPT !.versification = v]
    /\ pc' = "checked"
    /\ UNCHANGED <<text, book_id, ranges, reparsed, written,
                   original_text, yielded, config>>

\* the caller holds a verse with a token after it
InitTokens ==
    /\ pc = "text"
    /\ written \in TokenRefs
    /\ text = TextOf(written)
    /\ book_id = ""
    /\ ranges = <<>>
    /\ formatted = NoFormat
    /\ reparsed = NoParse
    /\ valid = FALSE
    /\ original_text = NoOriginalText(<<>>)
    /\ yielded = <<>>
    /\ Unconfigured

\* the caller holds a text to scan, or a reference to a whole book
InitScan ==
    /\ \/ /\ pc = "text"
          /\ written \in ScanRefs
          /\ text = TextOf(written)
          /\ book_id = ""
       \/ /\ pc = "built"
          /\ written = NoWritten
          /\ text = <<>>
          /\ book_id \in Books
    /\ ranges = <<>>
    /\ formatted = NoFormat
    /\ reparsed = NoParse
    /\ valid = FALSE
    /\ original_text = NoOriginalText(<<>>)
    /\ yielded = <<>>
    /\ Unconfigured

\* the SimpleBibleRef that the caller holds
held_ref ==
    [book_id |-> book_id, ranges |-> ranges,
     original_text |-> original_text.ref,
     range_texts |-> original_text.ranges]

\* list(ref.ranges_iter())
RangesIter ==
    /\ pc = "built"
    /\ yielded' = ranges_iter(held_ref)
    /\ pc' = "iterated"
    /\ UNCHANGED <<text, book_id, ranges, formatted, reparsed, valid,
                   written, original_text, config>>

\* list(RefParser(style, eng).scan_string_simple(text, as_ranges))
ScanString(as_ranges) ==
    /\ pc = "text"
    /\ yielded' = scan_string_simple(text, StyleOf(written.style), eng,
                                     as_ranges)
    /\ pc' = IF as_ranges THEN "scanned_ranges" ELSE "scanned"
    /\ UNCHANGED <<text, book_id, ranges, formatted, reparsed, valid,
                   written, original_text, config>>

Next ==
    \/ \E st \in StyleIds, v \in {"None", "eng"} : Format(st, v)
    \/ Reparse
    \/ RangeIsValid
    \/ \E v \in {"eng", "empty"} : IsValid(v)

Spec == Init /\ [][Next]_vars

NextText ==
    \/ ParseSimple
    \/ \E st \in StyleIds : Format(st, "None")
    \/ Reparse

SpecText == InitText /\ [][NextText]_vars

\* a caller parses a text that holds more than a reference
NextNoisy == ParseSimple

SpecNoisy == InitNoisy /\ [][NextNoisy]_vars

\* a caller holds the data to configure a Versification with
InitConfig ==
    /\ pc = "source"
    /\ source \in VersificationData \cup VersificationFiles
                 \cup StandardIds
                 \cup {[kind |-> "names", names |-> d] : d \in NameTables}
                 \cup StyleData
    /\ object = [kind |-> ""]
    /\ answer = NoAnswer
    /\ text = <<>>
    /\ book_id = ""
    /\ ranges = <<>>
    /\ formatted = NoFormat
    /\ reparsed = NoParse
    /\ valid = FALSE
    /\ written = NoWritten
    /\ original_text = NoOriginalText(<<>>)
    /\ yielded = <<>>

\* what the calls below leave alone
UnchangedRef ==
    UNCHANGED <<text, book_id, ranges, formatted, reparsed, valid, written,
                original_text, yielded>>

\* Versification(data=source), Versification(file_path=source) or
\* Versification(abbreviation=source)
NewVersification ==
    /\ pc = "source"
    /\ source.kind \in {"data", "file", "abbreviation"}
    /\ object' = [kind |-> "Versification", value |-> Versification(source),
                  shares |-> source.kind = "data" /\ source.has_max_verses]
    /\ pc' = "constructed"
    /\ UNCHANGED <<source, answer>>
    /\ UnchangedRef

\* RefStyle(names=source.names): the style, which holds the caller's dict
\* as names, or the ValueError of _invert
NewRefStyle ==
    /\ pc = "source"
    /\ source.kind = "names"
    /\ object' =
           IF _invert(source.names).raised # <<>>
           THEN [kind |-> "raised", shares |-> FALSE,
                 value |-> _invert(source.names).raised]
           ELSE [kind |-> "RefStyle", shares |-> TRUE,
                 value |-> RefStyle(source.names, <<":">>, <<"ndash">>,
                                    <<"f">>, <<"f", "f">>, <<",", " ">>,
                                    <<";", " ">>)]
    /\ pc' = "constructed"
    /\ UNCHANGED <<source, answer>>
    /\ UnchangedRef

\* object.also_recognize(inc), on the style a parser was built from as on
\* any other; the FileNotFoundError of standard_names leaves the style as
\* it was
AlsoRecognize(inc) ==
    /\ pc = "constructed"
    /\ object.kind \in {"RefStyle", "RefParser"}
    /\ object' = [object EXCEPT
                     !.value = also_recognize(@, incoming_names(inc))]
    /\ answer' = [NoAnswer EXCEPT !.op = "also_recognize", !.names = inc]
    /\ UNCHANGED <<pc, source>>
    /\ UnchangedRef

\* RefStyle.from_dict(source)
FromDict ==
    /\ pc = "source"
    /\ source.kind = "dict"
    /\ object' = from_dict(source)
    /\ pc' = "constructed"
    /\ UNCHANGED <<source, answer>>
    /\ UnchangedRef

\* the caller changes the dict it built the object from: the name of the
\* first book of names, or the chapters of a book of maxVerses.  An object
\* that holds the dict itself changes with it
MutateSource(b) ==
    /\ pc = "constructed"
    /\ object.kind \in {"RefStyle", "Versification"}
    /\ \/ /\ \/ source.kind = "names"
             \/ source.kind = "dict" /\ source.names_shape = "dict"
          /\ source' = [source EXCEPT !.names[1][2] = <<"Z">>]
          /\ object' = IF object.shares
                       THEN [object EXCEPT
                                !.value.names = mapping(source'.names)]
                       ELSE object
       \/ /\ source.kind = "data"
          /\ source.has_max_verses
          /\ source' = [source EXCEPT !.table = set_item(@, b, <<1>>)]
          /\ object' = IF object.shares
                       THEN [object EXCEPT
                                !.value.max_verses = source'.table]
                       ELSE object
    /\ pc' = "mutated"
    /\ UNCHANGED answer
    /\ UnchangedRef

\* RefStyle.named(source) or standard_names(source)
Named ==
    /\ pc = "source"
    /\ source.kind \in {"style_id", "names_id"}
    /\ object' = IF source.kind = "style_id" THEN named(source)
                 ELSE standard_names(source)
    /\ pc' = "constructed"
    /\ UNCHANGED <<source, answer>>
    /\ UnchangedRef

\* object.last_verse(b, chapter)
LastVerse(b, chapter) ==
    /\ pc = "constructed"
    /\ object.kind = "Versification"
    /\ answer' = [NoAnswer EXCEPT
                     !.op = "last_verse", !.book = b, !.chapter = chapter,
                     !.value = last_verse(object.value, b, chapter)]
    /\ pc' = "answered"
    /\ UNCHANGED <<source, object>>
    /\ UnchangedRef

NextConfig ==
    \/ NewVersification
    \/ NewRefStyle
    \/ FromDict
    \/ \E b \in Books : MutateSource(b)
    \/ Named
    \/ \E inc \in Incoming : AlsoRecognize(inc)
    \/ \E b \in Books \cup {UnknownBook}, chapter \in -1..(MaxChapter + 1) :
           LastVerse(b, chapter)

SpecConfig == InitConfig /\ [][NextConfig]_vars

SpecTokens == InitTokens /\ [][ParseSimple]_vars

\* the caller holds a text of one entry and a parser, strict or not
InitGrammar ==
    /\ pc = "text"
    /\ written \in GrammarRefs
    /\ text = TextOf(written)
    /\ book_id = ""
    /\ ranges = <<>>
    /\ formatted = NoFormat
    /\ reparsed = NoParse
    /\ valid = FALSE
    /\ original_text = NoOriginalText(<<>>)
    /\ yielded = <<>>
    /\ Unconfigured

SpecGrammar == InitGrammar /\ [][ParseSimple]_vars

\* a caller holds the names to build a style and then a parser from
InitParser ==
    /\ pc = "source"
    /\ source \in {[kind |-> "names", names |-> d] : d \in ParserNameTables}
    /\ object = [kind |-> ""]
    /\ answer = NoAnswer
    /\ text = <<>>
    /\ book_id = ""
    /\ ranges = <<>>
    /\ formatted = NoFormat
    /\ reparsed = NoParse
    /\ valid = FALSE
    /\ written = NoWritten
    /\ original_text = NoOriginalText(<<>>)
    /\ yielded = <<>>

\* RefParser(object, eng), object being the caller's style
NewRefParser ==
    /\ pc = "constructed"
    /\ object.kind = "RefStyle"
    /\ object' = RefParser(object.value, eng, FALSE)
    /\ UNCHANGED <<pc, source, answer>>
    /\ UnchangedRef

\* object.parse_simple(t), object being the parser
ParserParseSimple(t) ==
    /\ pc = "constructed"
    /\ object.kind = "RefParser"
    /\ text' = t
    /\ reparsed' = RefParser_parse_simple(object, t, TRUE)
    /\ UNCHANGED <<pc, book_id, ranges, formatted, valid, written,
                   original_text, yielded, config>>

NextParser ==
    \/ NewRefStyle
    \/ NewRefParser
    \/ \E inc \in ParserIncoming : AlsoRecognize(inc)
    \/ \E t \in ParserTexts : ParserParseSimple(t)

SpecParser == InitParser /\ [][NextParser]_vars

NextScan ==
    \/ ParseSimple
    \/ RangesIter
    \/ \E as_ranges \in BOOLEAN : ScanString(as_ranges)

SpecScan == InitScan /\ [][NextScan]_vars

(***************************************************************************)
(* Properties                                                              *)
(***************************************************************************)
EndsWith(s, p) ==
    /\ Len(p) <= Len(s)
    /\ SubSeq(s, Len(s) - Len(p) + 1, Len(s)) = p

\* the reference read back is the reference that was formatted
SameReference == 
    /\ reparsed.kind = "SimpleBibleRef"
    /\ reparsed.book_id = book_id
    /\ reparsed.ranges = ranges

\* C1: a text that parse_simple accepts under a style, formatted under that
\* style, is parsed by the same parser into a reference with the same book id
\* and, range by range, the same chapters, verses and subverses
C1_SameStyleRoundTrip ==
    (pc = "reparsed" /\ written # NoWritten
     /\ formatted.style = written.style)
        => SameReference

\* C2: for every book id of the style and every list of ranges that each
\* satisfy VerseRange.is_valid, the formatted reference is parsed back into
\* the same book id and the same ranges
C2_FormatInvertsParse ==
    (pc = "reparsed" /\ written = NoWritten
     /\ formatted.versification = "None"
     /\ \A i \in 1..Len(ranges) : VerseRange_is_valid(ranges[i]))
        => SameReference

\* the written reference with the following-verse notation spelled as the
\* range of two verses and the chapter of a one-chapter book spelled out,
\* in the notation of style b
Translated(w, b) ==
    Written(b, w.book, StyleOf(b).range_separator,
        [i \in 1..Len(w.entries) |->
            LET e == w.entries[i]
                it == IF e.item.tail = "f"
                      THEN [e.item EXCEPT !.tail = "verse",
                                          !.end_verse = e.item.verse + 1]
                      ELSE e.item
            IN  Entry(IF i = 1 /\ e.chapter = 0 THEN 1 ELSE e.chapter, it)])

\* a written reference of chapter and verse numbers that reads as it is
\* written: no subverse, the following-verse notation next to its verse, a
\* range that ends after its start, a chapter written where it changes
PlainlyWritten ==
    /\ Len(ranges) = Len(written.entries)
    /\ \A i \in 1..Len(ranges) :
          LET e == written.entries[i]
              it == e.item
          IN  /\ it.sub = <<>> /\ it.end_sub = <<>>
              /\ it.tail # "subverse"
              /\ ~it.gap
              /\ it.tail = "verse" => it.end_verse > it.verse
              /\ it.tail = "chapter_verse" =>
                     ranges[i].end_chapter > ranges[i].start_chapter
              /\ (i > 1 /\ e.chapter # 0) =>
                     e.chapter # ranges[i - 1].end_chapter

\* C3: a text accepted under one style and formatted under another style is
\* the other style's name of the book followed by the same chapter and verse
\* numbers in the same order with the other style's separators and
\* following-verses token, a following verse being spelled as a range
C3_CrossStyleTranslation ==
    (pc = "formatted" /\ written # NoWritten
     /\ formatted.style # written.style /\ PlainlyWritten)
        => /\ formatted.kind = "str"
           /\ formatted.value = TextOf(Translated(written, formatted.style))

\* the four shapes for which VerseRange.is_valid is said to return False
InvalidShape(r) ==
    \/ r.start_verse >= 0 /\ r.end_verse < 0
       /\ r.start_chapter # r.end_chapter
    \/ r.start_verse < 0 /\ r.end_verse >= 0
    \/ r.start_chapter = r.end_chapter /\ r.start_verse >= 0
       /\ r.end_verse >= 0 /\ r.start_verse > r.end_verse
    \/ r.start_chapter > r.end_chapter

C5_ValidMeansInBounds ==
    (pc = "checked" /\ valid)
        => LET v == VersificationOf(formatted.versification)
           IN  /\ includes(v, book_id)
               /\ \A i \in 1..Len(ranges) :
                     LET r == ranges[i]
                     IN  /\ VerseRange_is_valid(r)
                         /\ last_verse(v, book_id, r.start_chapter) >= 0
                         /\ last_verse(v, book_id, r.end_chapter) >= 0
                         /\ r.start_verse >= 0 => r.start_verse
                                <= last_verse(v, book_id, r.start_chapter)
                         /\ r.end_verse >= 0 => r.end_verse
                                <= last_verse(v, book_id, r.end_chapter)

\* C6: format fails with ValueError for a book id that is not in
\* style.names, with or without ranges, and is_valid returns False for a
\* book id that is not in the versification, whatever the ranges
C6_UnknownBook ==
    /\ (pc = "formatted"
        /\ book_id \notin DOMAIN StyleOf(formatted.style).names)
           => formatted.kind = "ValueError"
    /\ (pc = "checked"
        /\ ~includes(VersificationOf(formatted.versification), book_id))
           => valid = FALSE

C6_Witness ==
    /\ pc = "formatted"
    /\ book_id = UnknownBook
    /\ Len(ranges) > 0
    /\ formatted.kind = "ValueError"

\* C7: a reference with no ranges is formatted, with or without a
\* versification, as exactly style.names[book_id]
C7_WholeBook ==
    (pc = "formatted" /\ Len(ranges) = 0
     /\ book_id \in DOMAIN StyleOf(formatted.style).names)
        => /\ formatted.kind = "str"
           /\ formatted.value = StyleOf(formatted.style).names[book_id]

C7_Witness ==
    /\ pc = "formatted"
    /\ Len(ranges) = 0
    /\ book_id = "JUD"
    /\ formatted.versification = "eng"
    /\ formatted.value = <<"J", "u", "d", "e">>

\* a reference of verse ranges that each end in the chapter they start in
RangesWithinAChapter ==
    /\ Len(ranges) > 0
    /\ \A i \in 1..Len(ranges) :
          /\ ranges[i].start_verse >= 0
          /\ ranges[i].end_chapter = ranges[i].start_chapter

\* C8: for a one-chapter book and verse ranges within a chapter, format with
\* the versification writes no chapter number and no
\* chapter_verse_separator, and format without a versification writes the
\* chapter number and the chapter_verse_separator before the verse
C8_SingleChapterSuppression ==
    (pc = "formatted" /\ book_id \in Books
     /\ is_single_chapter(eng, book_id) /\ RangesWithinAChapter)
        => LET st == StyleOf(formatted.style)
               name == st.names[book_id]
               cvs == st.chapter_verse_separator
           IN  /\ formatted.kind = "str"
               /\ Len(formatted.formatted_ranges) = Len(ranges)
               /\ IF formatted.versification = "eng"
                  THEN /\ ~Contains(formatted.value, cvs)
                       /\ StartsWithAt(formatted.value,
                              name \o <<" ">> \o Str(ranges[1].start_verse),
                              1)
                       /\ \A i \in 1..Len(ranges) :
                             StartsWithAt(formatted.formatted_ranges[i],
                                 Str(ranges[i].start_verse)
                                 \o ranges[i].start_subverse, 1)
                  ELSE StartsWithAt(formatted.value,
                           name \o <<" ">> \o Str(ranges[1].start_chapter)
                           \o cvs \o Str(ranges[1].start_verse), 1)

C8_Witness ==
    /\ pc = "formatted"
    /\ book_id = "JUD"
    /\ formatted.versification = "eng"
    /\ RangesWithinAChapter
    /\ Len(ranges) = 2
    /\ ranges[1].end_verse > ranges[1].start_verse
    /\ ranges[2].end_verse = ranges[2].start_verse
    /\ formatted.kind = "str"

\* range i starts in a chapter other than the one the range before it ends in
StartsOtherChapter(i) == ranges[i].start_chapter # ranges[i - 1].end_chapter

RECURSIVE JoinedFrom(_, _)
\* the texts of the ranges from range i on, each after chapter_separator
\* when it starts in another chapter than the range before it ends in, and
\* after verse_range_separator when it does not
JoinedFrom(st, i) ==
    IF i > Len(ranges) THEN <<>>
    ELSE (IF StartsOtherChapter(i)
          THEN st.chapter_separator ELSE st.verse_range_separator)
         \o formatted.formatted_ranges[i] \o JoinedFrom(st, i + 1)

\* C9: in format, a range after the first that starts in another chapter
\* than the previous range ends in follows chapter_separator and restates
\* its chapter; one that starts in the chapter the previous range ends in
\* follows verse_range_separator and has no chapter number
C9_JoinByPreviousEndChapter ==
    (pc = "formatted" /\ formatted.kind = "str"
     /\ formatted.versification = "None" /\ Len(ranges) >= 2
     /\ \A i \in 1..Len(ranges) :
           ranges[i].start_verse >= 0 /\ ranges[i].end_verse >= 0)
        => LET st == StyleOf(formatted.style)
           IN  /\ Len(formatted.formatted_ranges) = Len(ranges)
               /\ formatted.value =
                      st.names[book_id] \o <<" ">>
                      \o formatted.formatted_ranges[1] \o JoinedFrom(st, 2)
               /\ \A i \in 2..Len(ranges) :
                     StartsOtherChapter(i)
                         <=> StartsWithAt(formatted.formatted_ranges[i],
                                 Str(ranges[i].start_chapter)
                                 \o st.chapter_verse_separator, 1)

\* C10: in format, every range with a start verse and no end verse is its
\* start verse and start subverse followed at once by following_verses, at
\* any place in the list, with no range separator and no negative number
C10_FollowingVersesAnywhere ==
    (pc = "formatted" /\ formatted.kind = "str"
     /\ Len(formatted.formatted_ranges) = Len(ranges))
        => \A i \in 1..Len(ranges) :
              (ranges[i].start_verse >= 0 /\ ranges[i].end_verse < 0
               /\ VerseRange_is_valid(ranges[i]))
                  => LET st == StyleOf(formatted.style)
                         t == formatted.formatted_ranges[i]
                     IN  /\ EndsWith(t, Str(ranges[i].start_verse)
                                        \o ranges[i].start_subverse
                                        \o st.following_verses)
                         /\ ~Contains(t, st.range_separator)
                         /\ ~Contains(t, <<"-">>)

\* only whitespace, which pyparsing skips
Blank(s) == \A i \in 1..Len(s) : s[i] \in Whitespace

\* what parse_simple makes of the written reference alone
ParsedAlone ==
    parse_simple(TextOf([written EXCEPT !.before = <<>>, !.after = <<>>]),
                 StyleOf(written.style), eng, FALSE, TRUE)

\* C11: parse_simple(text, silent) returns a reference only when the whole
\* text is one reference, and then the reference of that text; when other
\* text stands before or after the reference, or the reference itself does
\* not parse, it returns None if silent and raises the ParseException if
\* not, and gives the caller no reference at all.
C11_WholeTextOrNothing ==
    pc \in {"built", "rejected", "raised"} =>
        IF Blank(written.before) /\ Blank(written.after)
           /\ ParsedAlone.kind = "SimpleBibleRef"
        THEN /\ pc = "built"
             /\ book_id = ParsedAlone.book_id
             /\ book_id = written.book
             /\ ranges = ParsedAlone.ranges
        ELSE /\ pc = IF written.silent THEN "rejected" ELSE "raised"
             /\ book_id = ""
             /\ ranges = <<>>

\* a text whose start is a reference is refused, with the exception because
\* the caller asked for it
C11_Witness ==
    /\ pc = "raised"
    /\ ~written.silent
    /\ written.before = <<>>
    /\ written.after = <<" ", "x">>
    /\ ParsedAlone.kind = "SimpleBibleRef"

\* C12: every (ref, start, end) that scan_string_simple yields, with or
\* without as_ranges, has text[start:end] == ref.original_text; the spans
\* are not empty, come in increasing position order and do not overlap.
C12_ScannedSpans ==
    pc \in {"scanned", "scanned_ranges"} =>
        \A i \in 1..Len(yielded) :
            /\ SubSeq(text, yielded[i].start, yielded[i].end - 1)
                   = yielded[i].ref.original_text
            /\ 1 <= yielded[i].start
            /\ yielded[i].start < yielded[i].end
            /\ yielded[i].end <= Len(text) + 1
            /\ i > 1 => yielded[i - 1].end <= yielded[i].start

\* a text with two references, the first of two ranges, and a word
\* between them: both are yielded
C12_Witness ==
    /\ pc = "scanned"
    /\ Len(yielded) = 2
    /\ Len(yielded[1].ref.ranges) = 2
    /\ yielded[1].end < yielded[2].start - 1
    /\ yielded[2].end = Len(text) + 1

\* C13: ranges_iter on a reference of n ranges yields n references, in the
\* order of the ranges, each with the book_id of the reference, the i-th
\* range alone and that range's original_text; the reference itself is
\* still what the caller built or parse_simple returned.
C13_RangesIter ==
    pc = "iterated" =>
        /\ Len(yielded) = Len(ranges)
        /\ \A i \in 1..Len(ranges) :
               /\ yielded[i].book_id = book_id
               /\ yielded[i].ranges = <<ranges[i]>>
               /\ yielded[i].original_text = original_text.ranges[i]
        /\ IF written = NoWritten
           THEN ranges = <<>> /\ original_text = NoOriginalText(<<>>)
           ELSE /\ book_id = ParsedAlone.book_id
                /\ ranges = ParsedAlone.ranges
                /\ original_text.ref = ParsedAlone.original_text
                /\ original_text.ranges = ParsedAlone.range_texts

\* a parsed reference of two ranges gives two references with the texts of
\* the two ranges
C13_Witness ==
    /\ pc = "iterated"
    /\ Len(yielded) = 2
    /\ yielded[1].original_text # yielded[2].original_text
    /\ yielded[1].original_text # original_text.ref

\* C14: last_verse(book, chapter) is 99 when the table is empty; otherwise
\* it is the recorded last verse of the chapter when the book and the
\* chapter (counted from 1) are in the table, whichever shape the data gave
\* the per-chapter numbers in, and -1 for an unknown book or a chapter out
\* of range.
C14_LastVerse ==
    pc = "answered" /\ answer.op = "last_verse" /\ source.kind = "data" =>
        answer.value =
            IF ~source.has_max_verses \/ DOMAIN source.table = {} THEN 99
            ELSE IF answer.book \notin DOMAIN source.table THEN -1
            ELSE IF answer.chapter \notin
                        1..Len(source.table[answer.book]) THEN -1
            ELSE source.table[answer.book][answer.chapter]

\* C15: asking for a standard versification, a standard style or a
\* standard table of names by an identifier that does not exist gives the
\* caller None or a raised failure, never a usable object.
C15_LookupMiss ==
    /\ pc \in {"constructed", "answered"}
    /\ source.kind \in {"abbreviation", "style_id", "names_id"}
    /\ ~source.readable
    => object.kind \in {"None", "raised"}

\* the ids that share the name n in the names dict d
Colliding(d, n) == {d[i][1] : i \in {k \in 1..Len(d) : d[k][2] = n}}

\* the only ids that may share a name
AcceptedCollision(ids) == ids \in {{"PSA", "PSAS"}, {"EST", "ESG"}}

\* C16: inverting names, a name shared by PSA and PSAS goes to PSA and a
\* name shared by EST and ESG goes to EST, in whichever order the ids
\* stand in names; when any other ids share a name, the construction
\* fails with the ValueError that names two of the ids sharing it, and no
\* style is produced.
C16_InvertCollisions ==
    pc = "constructed" /\ source.kind = "names" =>
        IF \A i \in 1..Len(source.names) :
               \/ Cardinality(Colliding(source.names, source.names[i][2])) = 1
               \/ AcceptedCollision(
                      Colliding(source.names, source.names[i][2]))
        THEN /\ object.kind = "RefStyle"
             /\ \A i \in 1..Len(source.names) :
                    object.value.recognized_names[source.names[i][2]] =
                        IF Cardinality(Colliding(source.names,
                                                 source.names[i][2])) = 1
                        THEN source.names[i][1]
                        ELSE IF source.names[i][1] \in {"PSA", "PSAS"}
                        THEN "PSA" ELSE "EST"
        ELSE /\ object.kind = "raised"
             /\ object.value[1] = "ValueError"
             /\ object.value[2] # object.value[3]
             /\ \E i \in 1..Len(source.names) :
                    /\ {object.value[2], object.value[3]}
                           \subseteq Colliding(source.names,
                                               source.names[i][2])
                    /\ ~AcceptedCollision(
                           Colliding(source.names, source.names[i][2]))

\* C17: a call of also_recognize leaves every name recognized before it
\* with the id it had, adds every incoming name not recognized before with
\* the incoming id and no other name, and leaves names and the separator
\* and suffix tokens as they were.
C17_AlsoRecognizeLeftBiased ==
    [][\A inc \in Incoming :
          AlsoRecognize(inc) =>
              /\ DOMAIN object'.value.recognized_names =
                     DOMAIN object.value.recognized_names
                     \cup DOMAIN incoming_names(inc)
              /\ \A n \in DOMAIN object.value.recognized_names :
                     object'.value.recognized_names[n] =
                         object.value.recognized_names[n]
              /\ \A n \in DOMAIN incoming_names(inc)
                            \ DOMAIN object.value.recognized_names :
                     object'.value.recognized_names[n] =
                         incoming_names(inc)[n]
              /\ [object'.value EXCEPT !.recognized_names = <<>>] =
                     [object.value EXCEPT !.recognized_names = <<>>]]_vars

\* a style after a call whose dict held a name recognized already, with
\* another id, and a name that was new
C17_Witness ==
    /\ pc = "constructed"
    /\ object.kind = "RefStyle"
    /\ answer.op = "also_recognize"
    /\ answer.names.kind = "dict"
    /\ \E n \in DOMAIN answer.names.names :
           object.value.recognized_names[n] # answer.names.names[n]
    /\ \E n \in DOMAIN answer.names.names :
           /\ object.value.recognized_names[n] = answer.names.names[n]
           /\ \A k \in DOMAIN object.value.names :
                  object.value.names[k] # n

\* the data of from_dict has a field of the wrong shape
WrongShape(data) ==
    \/ data.names_shape = "other"
    \/ data.separator = "other"
    \/ data.also_recognize.kind = "other"
    \/ \E i \in 1..Len(data.also_recognize.entries) :
           data.also_recognize.entries[i].kind = "other"

\* C18: a style definition that lacks names, whose names is neither an
\* identifier nor a mapping, or whose separator override or supplementary
\* name entry has the wrong shape, and versification data that lacks
\* maxVerses or a versification file that cannot be read, each fail at
\* construction: the caller gets an error and no object.
C18_FailFast ==
    /\ pc = "constructed"
    /\ \/ /\ source.kind = "dict"
          /\ ~source.has_names \/ WrongShape(source)
       \/ /\ source.kind \in {"data", "file"}
          /\ ~source.has_max_verses \/ ~source.readable
    => object.kind = "raised"

\* C19: when the caller changes the mapping it built a Style or a
\* Versification from, the object stays as it was built, and so does every
\* answer of last_verse; last_verse leaves the object as it was.
C19_OwnsItsData ==
    [][(source' # source \/ pc' = "answered") => object' = object]_vars

\* C20: a verse with the style's following_verse token right after it
\* parses to the range that ends at the next verse, and with the
\* following_verses token to the range with end_verse -1, both in the
\* chapter of the verse and without subverses, with the chapter written or
\* left out, whatever the length of the token.
C20_FollowingTokens ==
    /\ pc = "built"
    /\ written.entries[1].item.tail \in {"f", "ff"}
    => /\ Len(ranges) = 1
       /\ ranges[1].start_verse = written.entries[1].item.verse
       /\ ranges[1].end_verse =
              IF written.entries[1].item.tail = "f"
              THEN written.entries[1].item.verse + 1 ELSE -1
       /\ ranges[1].end_chapter = ranges[1].start_chapter
       /\ ranges[1].start_subverse = <<>>
       /\ ranges[1].end_subverse = <<>>

\* the letters that stand right after the start verse of a written item
LettersAfterVerse(it, st) ==
    (IF it.sub = FvSub THEN st.following_verse
     ELSE IF it.sub = FvsSub THEN st.following_verses
     ELSE it.sub)
    \o (IF it.gap \/ it.tail \notin {"f", "ff"} THEN <<>>
        ELSE IF it.tail = "f" THEN st.following_verse
        ELSE st.following_verses)

\* C21: one or two letters right after the start verse are read as the
\* following_verse (or following_verses) marker, the start subverse being
\* cleared, exactly when they equal that token of the style and no end
\* verse is written; with an end verse written they stay the start
\* subverse and the range ends at that verse; other letters stay a
\* subverse.  (An end chapter is written only where the chapter is.)
C21_LettersOrToken ==
    (pc = "built" /\ Len(written.entries) = 1
     /\ (written.entries[1].item.tail = "chapter_verse"
            => written.entries[1].chapter # 0))
    => LET it == written.entries[1].item
           st == StyleOf(written.style)
           letters == LettersAfterVerse(it, st)
           explicit == it.tail \in {"verse", "chapter_verse"}
       IN  Len(letters) \in 1..2
           => /\ Len(ranges) = 1
              /\ ranges[1].start_verse = it.verse
              /\ IF letters = st.following_verse /\ ~explicit
                 THEN /\ ranges[1].start_subverse = <<>>
                      /\ ranges[1].end_verse = it.verse + 1
                      /\ ranges[1].end_chapter = ranges[1].start_chapter
                      /\ ranges[1].end_subverse = <<>>
                 ELSE IF letters = st.following_verses /\ ~explicit
                 THEN /\ ranges[1].start_subverse = <<>>
                      /\ ranges[1].end_verse = -1
                      /\ ranges[1].end_chapter = ranges[1].start_chapter
                      /\ ranges[1].end_subverse = <<>>
                 ELSE /\ ranges[1].start_subverse = letters
                      /\ explicit => ranges[1].end_verse = it.end_verse

\* the following_verse token followed by an end verse stayed a subverse
C21_Witness ==
    /\ pc = "built"
    /\ written.entries[1].item.sub = FvSub
    /\ written.entries[1].item.tail = "verse"
    /\ ranges[1].start_subverse = StyleOf(written.style).following_verse
    /\ ranges[1].end_verse = written.entries[1].item.end_verse

\* C22: in a reference with chapters, a range that opens a chapter group
\* starts in the chapter written there; a later range of the group starts
\* in the chapter where the range before it ends; a range written without
\* an end chapter ends in the chapter it starts in, and one written with an
\* end chapter ends there.
C22_ChapterPropagation ==
    (pc = "built" /\ written.entries[1].chapter # 0)
    => /\ Len(ranges) = Len(written.entries)
       /\ \A i \in 1..Len(ranges) :
             LET e == written.entries[i]
             IN  /\ ranges[i].start_chapter =
                        IF e.chapter # 0 THEN e.chapter
                        ELSE ranges[i - 1].end_chapter
                 /\ ranges[i].end_chapter =
                        IF e.item.tail = "chapter_verse"
                        THEN e.item.end_chapter
                        ELSE ranges[i].start_chapter

\* a range went on in the chapter where the range before it ended, which
\* is not the chapter written at the head of the group
C22_Witness ==
    /\ pc = "built"
    /\ Len(ranges) >= 2
    /\ written.entries[1].chapter # 0
    /\ written.entries[2].chapter = 0
    /\ written.entries[1].item.tail = "chapter_verse"
    /\ ranges[1].end_chapter # ranges[1].start_chapter
    /\ ranges[2].start_chapter = ranges[1].end_chapter

\* an end chapter is written only in a reference that writes its chapters
EndChapterWhereChapters ==
    \A i \in 1..Len(written.entries) :
        written.entries[i].item.tail = "chapter_verse"
            => written.entries[1].chapter # 0

\* C23: two verse ranges of one chapter group, or of a book of one chapter,
\* written with the verse_range_separator of the parser's style between
\* them, parse into two ranges.
C23_StyleDelimiter ==
    (pc \in {"built", "rejected"} /\ Len(written.entries) = 2
     /\ written.entries[2].chapter = 0 /\ EndChapterWhereChapters)
    => (pc = "built" /\ Len(ranges) = 2)

\* the written reference with the other of hyphen and en dash between the
\* ends of its ranges
OtherSeparator(w) ==
    [w EXCEPT !.rs = IF w.rs = <<"-">> THEN <<"ndash">> ELSE <<"-">>]

\* C24: of a range written with two ends, a parser built with strict=True
\* accepts the text when the separator between the ends is the style's
\* range_separator and rejects it when it is the other of hyphen and en
\* dash; a parser built with strict=False accepts both and returns the
\* same ranges for both.
C24_RangeSeparators ==
    (pc \in {"built", "rejected"} /\ Len(written.entries) = 1
     /\ written.entries[1].item.tail
            \in {"verse", "chapter_verse", "subverse"}
     /\ EndChapterWhereChapters
     /\ (written.entries[1].chapter = 0
            => is_single_chapter(eng, written.book)))
    => LET st == StyleOf(written.style)
       IN  /\ (written.strict /\ written.rs # st.range_separator)
                 => pc = "rejected"
           /\ (written.strict /\ written.rs = st.range_separator)
                 => pc = "built"
           /\ ~written.strict
                 => /\ pc = "built"
                    /\ ranges = parse_simple(TextOf(OtherSeparator(written)),
                                             st, eng, FALSE, TRUE).ranges

\* a strict parser rejected the separator that is not its style's
C24_Witness ==
    /\ pc = "rejected"
    /\ written.strict
    /\ written.entries[1].item.tail = "verse"
    /\ written.rs # StyleOf(written.style).range_separator
    /\ written.entries[1].chapter # 0

\* the written reference with chapter 1 written before its first entry
WithChapterOne(w) == [w EXCEPT !.entries[1].chapter = 1]

\* a text without a chapter: for the book of one chapter it parses as the
\* same text with chapter 1 written does, a verse or a range of verses does
\* parse, and every range starts and ends in chapter 1; for the book with
\* chapters it is rejected
WithoutChapter ==
    (pc \in {"built", "rejected"} /\ written.entries[1].chapter = 0
     /\ \A i \in 1..Len(written.entries) :
            written.entries[i].item.tail # "chapter_verse")
    => IF is_single_chapter(eng, written.book)
       THEN /\ (pc = "built")
                  = (parse_simple(TextOf(WithChapterOne(written)),
                                  StyleOf(written.style), eng, FALSE,
                                  TRUE).kind = "SimpleBibleRef")
            /\ (/\ Len(written.entries) = 1
                /\ written.entries[1].item.sub = <<>>
                /\ written.entries[1].item.tail \in {"none", "verse"})
                   => pc = "built"
            /\ pc = "built"
                   => /\ Len(ranges) = Len(written.entries)
                      /\ ranges = parse_simple(
                                      TextOf(WithChapterOne(written)),
                                      StyleOf(written.style), eng, FALSE,
                                      TRUE).ranges
                      /\ \A i \in 1..Len(ranges) :
                            /\ ranges[i].start_chapter = 1
                            /\ ranges[i].end_chapter = 1
                            /\ ranges[i].start_verse
                                   = written.entries[i].item.verse
       ELSE pc = "rejected"

\* the text of a book of one chapter with a chapter and the
\* chapter_verse_separator written is read as that chapter and the verse
\* after it
ChapterWritten ==
    (pc \in {"built", "rejected"} /\ Len(written.entries) = 1
     /\ written.entries[1].chapter # 0
     /\ is_single_chapter(eng, written.book)
     /\ written.entries[1].item.tail \in {"none", "verse"}
     /\ written.entries[1].item.sub = <<>>)
    => /\ pc = "built"
       /\ ranges[1].start_chapter = written.entries[1].chapter
       /\ ranges[1].start_verse = written.entries[1].item.verse

\* C25: for a book of one chapter, a text without a chapter parses with
\* every range in chapter 1, as the same text with chapter 1 written does,
\* and a text with chapter c and the chapter_verse_separator written is
\* read as chapter c and the verse after it, not as verse c; for a book
\* with chapters, a text without a chapter is rejected.
C25_SingleChapterGrammar == WithoutChapter /\ ChapterWritten

\* two verses of the book of one chapter were parsed without a chapter
C25_Witness ==
    /\ pc = "built"
    /\ book_id = "JUD"
    /\ written.entries[1].chapter = 0
    /\ Len(ranges) = 2
    /\ \A i \in 1..2 : ranges[i].start_chapter = 1 /\ ranges[i].end_chapter = 1

\* the part of the text of a written reference that belongs to its entry
\* i: the verses of the entry as written, after the chapter number and the
\* chapter_verse_separator when the entry opens a chapter group, after the
\* book name when it is the first
WrittenRangeText(w, i) ==
    LET st == StyleOf(w.style)
    IN  (IF i = 1 THEN st.names[w.book] \o <<" ">> ELSE <<>>)
        \o (IF w.entries[i].chapter # 0
            THEN Str(w.entries[i].chapter) \o st.chapter_verse_separator
            ELSE <<>>)
        \o ItemText(w.entries[i].item, st, w.rs)

C27_SubverseRange ==
    (pc = "formatted" /\ formatted.kind = "str"
     /\ Len(formatted.formatted_ranges) = Len(ranges))
    => \A i \in 1..Len(ranges) :
          (/\ ranges[i].end_chapter = ranges[i].start_chapter
           /\ ranges[i].start_verse >= 0
           /\ ranges[i].end_verse = ranges[i].start_verse
           /\ ranges[i].end_subverse # ranges[i].start_subverse)
          => EndsWith(formatted.formatted_ranges[i],
                      Str(ranges[i].start_verse)
                      \o ranges[i].start_subverse
                      \o StyleOf(formatted.style).range_separator
                      \o ranges[i].end_subverse)

\* C28: for a book id of the style and ranges that each satisfy
\* VerseRange.is_valid, format returns a string and has rendered every
\* range once, with or without a versification, also for a book of one
\* chapter with a whole-chapter range.
C28_FormatIsTotal ==
    (pc = "formatted" /\ book_id \in DOMAIN StyleOf(formatted.style).names
     /\ \A i \in 1..Len(ranges) : VerseRange_is_valid(ranges[i]))
    => /\ formatted.kind = "str"
       /\ Len(formatted.formatted_ranges) = Len(ranges)

\* C29: in a reference returned by parse_simple every range has chapters
\* and a start verse that are not negative, and an end verse that is not
\* negative unless the range was written with the following_verses token:
\* then the end verse is -1 and the range ends in the chapter it starts in.
C29_NoPlaceholder ==
    (pc = "built" /\ written # NoWritten)
    => \A i \in 1..Len(ranges) :
          /\ ranges[i].start_chapter >= 0
          /\ ranges[i].end_chapter >= 0
          /\ ranges[i].start_verse >= 0
          /\ ranges[i].end_verse < 0
                => /\ ranges[i].end_verse = -1
                   /\ ranges[i].end_chapter = ranges[i].start_chapter
                   /\ Len(ranges) = Len(written.entries)
                          => written.entries[i].item.tail = "ff"

\* a range written with the following_verses token after the head of its
\* chapter group was parsed
C29_Witness ==
    /\ pc = "built"
    /\ Len(ranges) = 2
    /\ written.entries[1].chapter # 0
    /\ written.entries[2].chapter = 0
    /\ written.entries[2].item.tail = "ff"
    /\ ranges[2].end_verse = -1
    /\ ranges[2].start_chapter = written.entries[1].chapter

\* two outcomes of parse_simple are the same result: both None, or
\* references with the same book id and ranges
SameParse(a, b) ==
    /\ a.kind = b.kind
    /\ a.book_id = b.book_id
    /\ a.ranges = b.ranges

\* C30: whatever calls of also_recognize the style of a parser has
\* received since the parser was built, the text the parser was last
\* handed parses on it now to what it parsed to then: the same book id
\* and ranges, or None as then, also where the text begins with a name
\* the style has come to recognize in between.
C30_GrammarSnapshot ==
    (object.kind = "RefParser" /\ text \in ParserTexts)
        => SameParse(RefParser_parse_simple(object, text, TRUE), reparsed)

\* a parser has rejected a text that begins with a name its style has
\* come to recognize after the parser was built, and that a parser built
\* now would accept
C30_Witness ==
    /\ pc = "constructed"
    /\ object.kind = "RefParser"
    /\ answer.op = "also_recognize"
    /\ text \in ParserTexts
    /\ reparsed.kind = "None"
    /\ \E n \in DOMAIN object.value.recognized_names \ object.book :
           StartsWithAt(text, n, 1)
    /\ parse_simple(text, object.value, eng, object.strict, TRUE).kind
           = "SimpleBibleRef"

====
